---------------------------- MODULE Spec2Model ----------------------------
(***************************************************************************)
(* Model of the JPE circuit-model analysis scripts: the thermal            *)
(* self-consistency solver (fitting/R_int/solvers.py, model.py), the       *)
(* fitters (fitting/R_int/fitting.py, antenna_params/utils/fitting.py),    *)
(* the impedance network helpers (antenna_param_fit/model.py), the tables  *)
(* (fitting/R_int/processing.py, io.py), the control flow of the four     *)
(* scripts (R_int_fitting.py, without_L/main.py, phase_analysis.py,        *)
(* time_averaging.py) and the netlist editing of python_integration        *)
(* (utils.py, with the legacy python-integration/edit_jpe_3stacks.py).     *)
(*                                                                         *)
(* Numbers.  The code computes in IEEE-754 doubles through NumPy.  A       *)
(* double is modelled as a record: a finite value is an exact rational     *)
(* n/d in lowest terms, and the three non-finite values nan, +inf and      *)
(* -inf are kept apart, with NumPy's rules for them (x/0 = +-inf,          *)
(* 0*inf = nan, inf-inf = nan, nan is contagious, nan != x).  The sign of *)
(* zero is not modelled.  Rounding: the impedance helpers round every      *)
(* result to the nearest double (fl, ties to even) with a significand of   *)
(* Precision bits, a scaled stand-in for the 53 bits of float64; the       *)
(* solver and the fitters compute on exact rationals.                      *)
(***************************************************************************)
EXTENDS Integers, Sequences, FiniteSets, TLC

----------------------------------------------------------------------------
(* Bounds of the model *)

\* longest array of currents handed to I_int2V_int
MaxLen == 2
\* most rows of a table handed to a fit
MaxRows == 3
\* most impedances handed to parallel_sum
MaxBranches == 2
\* how far from its seed the modelled root finder looks, in grid steps
Reach == 4
\* largest integer argument at which exp is still finite (float64: 709)
ExpOverflow == 4
\* bits of the significand of a double (float64: 53)
Precision == 3
\* most impedances handed to series_sum
MaxTerms == 3

----------------------------------------------------------------------------
(* IEEE doubles *)

Abs(n) == IF n < 0 THEN -n ELSE n

RECURSIVE GCD(_, _)
GCD(a, b) == IF b = 0 THEN a ELSE GCD(b, a % b)

\* the finite double n/d (d # 0), in lowest terms with a positive denominator
Rat(n, d) ==
    LET g == GCD(Abs(n), Abs(d))
        s == IF d < 0 THEN -1 ELSE 1
    IN  [k |-> "fin", n |-> (s * n) \div g, d |-> Abs(d) \div g]

Fin(n) == [k |-> "fin", n |-> n, d |-> 1]
nan == [k |-> "nan", n |-> 0, d |-> 1]
inf == [k |-> "inf", n |-> 1, d |-> 1]
ninf == [k |-> "inf", n |-> -1, d |-> 1]

isnan(x) == x.k = "nan"
isfinite(x) == x.k = "fin"
IsZero(x) == x.k = "fin" /\ x.n = 0
Sign(x) == IF x.n > 0 THEN 1 ELSE IF x.n < 0 THEN -1 ELSE 0
SignedInf(s) == IF s > 0 THEN inf ELSE ninf

FNeg(x) == [x EXCEPT !.n = -x.n]

FAdd(x, y) ==
    IF isnan(x) \/ isnan(y) THEN nan
    ELSE IF x.k = "inf" /\ y.k = "inf" THEN (IF x.n = y.n THEN x ELSE nan)
    ELSE IF x.k = "inf" THEN x
    ELSE IF y.k = "inf" THEN y
    ELSE Rat(x.n * y.d + y.n * x.d, x.d * y.d)

FSub(x, y) == FAdd(x, FNeg(y))

FMul(x, y) ==
    IF isnan(x) \/ isnan(y) THEN nan
    ELSE IF x.k = "inf" \/ y.k = "inf"
         THEN (IF Sign(x) * Sign(y) = 0 THEN nan ELSE SignedInf(Sign(x) * Sign(y)))
    ELSE Rat(x.n * y.n, x.d * y.d)

\* NumPy's true division: a zero divisor gives +-inf or nan and a warning
FDiv(x, y) ==
    IF isnan(x) \/ isnan(y) THEN nan
    ELSE IF x.k = "inf" /\ y.k = "inf" THEN nan
    ELSE IF x.k = "inf" THEN SignedInf(IF Sign(y) < 0 THEN -x.n ELSE x.n)
    ELSE IF y.k = "inf" THEN Fin(0)
    ELSE IF y.n = 0 THEN (IF x.n = 0 THEN nan ELSE SignedInf(Sign(x)))
    ELSE Rat(x.n * y.d, x.d * y.n)

\* |x| <= |y| for finite x, y
AbsLeq(x, y) == Abs(x.n) * y.d <= Abs(y.n) * x.d

RECURSIVE Pow2(_)
Pow2(e) == IF e = 0 THEN 1 ELSE 2 * Pow2(e - 1)

\* a/d (a, d > 0) scaled by a power of two into [2^(Precision-1), 2^Precision):
\* the significand before rounding, as the fraction a/d, and the exponent e
RECURSIVE Normalise(_, _, _)
Normalise(a, d, e) ==
    IF a >= Pow2(Precision) * d THEN Normalise(a, 2 * d, e + 1)
    ELSE IF a < Pow2(Precision - 1) * d THEN Normalise(2 * a, d, e - 1)
    ELSE [a |-> a, d |-> d, e |-> e]

\* a/d rounded to the nearest integer, a tie going to the even one
RoundHalfEven(a, d) ==
    LET q == a \div d
        r == a % d
    IN  IF 2 * r > d THEN q + 1
        ELSE IF 2 * r < d THEN q
        ELSE q + (q % 2)

\* the double nearest to x: what every floating-point operation returns
fl(x) ==
    IF x.k # "fin" \/ x.n = 0 THEN x
    ELSE LET s == Normalise(Abs(x.n), x.d, 0)
             m == Sign(x) * RoundHalfEven(s.a, s.d)
         IN  IF s.e >= 0 THEN Rat(m * Pow2(s.e), 1) ELSE Rat(m, Pow2(-s.e))

\* x + y and x / y in doubles
RAdd(x, y) == fl(FAdd(x, y))
RDiv(x, y) == fl(FDiv(x, y))

\* x is a double: rounding leaves it alone
IsDouble(x) == fl(x) = x

\* e^m for a natural m, rounded down to an integer: 1, 2, 7, 20, 54, ...
RECURSIVE ExpMilli(_)
ExpMilli(m) == IF m = 0 THEN 1000 ELSE (ExpMilli(m - 1) * 2718) \div 1000
ExpNat(m) == ExpMilli(m) \div 1000

\* np.exp: the argument is rounded down to an integer m; e^m overflows to
\* +inf above ExpOverflow and underflows to 0 below -ExpOverflow
exp(x) ==
    IF isnan(x) THEN nan
    ELSE IF x.k = "inf" THEN (IF x.n > 0 THEN inf ELSE Fin(0))
    ELSE LET m == x.n \div x.d
         IN  IF m > ExpOverflow THEN inf
             ELSE IF m >= 0 THEN Fin(ExpNat(m))
             ELSE IF m >= -ExpOverflow THEN Rat(1, ExpNat(-m))
             ELSE Fin(0)


----------------------------------------------------------------------------
(* fitting/R_int/model.py *)

T2R_int(T, A, B, C, D) ==
    FAdd(FMul(A, FAdd(exp(FDiv(FNeg(T), B)), exp(FDiv(FNeg(FMul(T, T)), C)))), D)

\* faulty variant: the bath temperature is left out
P2T_NoBath(P, R_th, T_bath) == FMul(R_th, P)

P2T(P, R_th, T_bath) == FAdd(FMul(R_th, P), T_bath)

T2R_th(T, alpha, beta, gamma) ==
    FDiv(gamma, FSub(Fin(1), FMul(alpha, exp(FMul(FNeg(beta), T)))))

----------------------------------------------------------------------------
(* scipy.optimize.root, as the solvers use it: one unknown, a fixed seed.   *)
(* The library routine is modelled as a deterministic search of the grid   *)
(* points within Reach of the seed.  It reports success with the zero of   *)
(* the residual nearest the seed; when no grid point in reach is a zero it *)
(* reports failure and hands back its last iterate, the point in reach of  *)
(* smallest finite residual (the seed when no residual is finite).         *)

\* the seeds, in grid units: 20e-3 V is 2 steps of 10 mV, 30.0 is 3 steps of 10
SeedV == 2
SeedT == 3

Dist(a, b) == Abs(a - b)

\* the member of the non-empty set S of integers nearest x0, the larger on a tie
Nearest(S, x0) ==
    CHOOSE x \in S : \A y \in S :
        Dist(x, x0) < Dist(y, x0) \/ (Dist(x, x0) = Dist(y, x0) /\ x >= y)

root(fun(_), x0) ==
    LET Dom     == (x0 - Reach)..(x0 + Reach)
        val     == {<<x, fun(Fin(x))>> : x \in Dom}
        zeros   == {p[1] : p \in {q \in val : IsZero(q[2])}}
        finite  == {q \in val : isfinite(q[2])}
        best    == {p[1] : p \in {q \in finite :
                                   \A r \in finite : AbsLeq(q[2], r[2])}}
    IN  IF zeros # {} THEN [success |-> TRUE, x |-> Fin(Nearest(zeros, x0))]
        ELSE IF finite # {} THEN [success |-> FALSE, x |-> Fin(Nearest(best, x0))]
        ELSE [success |-> FALSE, x |-> Fin(x0)]

----------------------------------------------------------------------------
(* fitting/R_int/solvers.py *)

solve4T(T, P, alpha, beta, gamma, T_bath) ==
    LET R_th   == T2R_th(T, alpha, beta, gamma)
        T_calc == P2T(P, R_th, T_bath)
    IN  FSub(T, T_calc)

\* the inner solve of solve4V_int (line 40): sol.success and sol.x[0]
InnerSol(V_int, I_int, par) ==
    LET P == FMul(V_int, I_int)
    IN  root(LAMBDA T : solve4T(T, P, par.alpha, par.beta, par.gamma, par.T_bath),
             SeedT)

\* faulty variant: an inner failure poisons the residual with NaN
solve4V_int_NanOnInnerFailure(V_int, I_int, par) ==
    LET sol   == InnerSol(V_int, I_int, par)
        R_int == T2R_int(sol.x, par.A, par.B, par.C, par.D)
    IN  IF sol.success THEN FSub(V_int, FMul(R_int, I_int)) ELSE nan

\* faulty variant: the residual compares V with R_int instead of R_int*I
solve4V_int_DropsCurrent(V_int, I_int, par) ==
    LET sol   == InnerSol(V_int, I_int, par)
        R_int == T2R_int(sol.x, par.A, par.B, par.C, par.D)
    IN  FSub(V_int, R_int)

\* the value solve4V_int returns; an inner failure only logs a warning
solve4V_int(V_int, I_int, par) ==
    LET sol   == InnerSol(V_int, I_int, par)
        T_val == sol.x
        R_int == T2R_int(T_val, par.A, par.B, par.C, par.D)
    IN  FSub(V_int, FMul(R_int, I_int))

\* faulty variant: warm start from the last point that was solved
OuterSeed_WarmStart(done) ==
    IF Len(done) > 0 /\ isfinite(done[Len(done)]) /\ done[Len(done)].d = 1
    THEN done[Len(done)].n
    ELSE SeedV

\* the seed of the outer solve for the next point, given the outputs so far
OuterSeed(done) == SeedV

\* the outer solve of one point (lines 66-68)
OuterSol(I, par, done) ==
    root(LAMBDA V : solve4V_int(V, I, par), OuterSeed(done))

\* faulty variant: the last iterate is stored whether or not the solve converged
Stored_KeepsIterate(sol) == sol.x

\* what the loop stores for a point (lines 69-73)
Stored(sol) == IF sol.success THEN sol.x ELSE nan

----------------------------------------------------------------------------
(* Inputs of the solver *)

\* the currents of the samples: float arrays, as R_int_fitting.py builds them
Currents == {Fin(0), Fin(1), Fin(2)}

Arrays(S, max) == UNION {[1..n -> S] : n \in 0..max}

Par(A, B, C, D, alpha, beta, gamma, T_bath) ==
    [A |-> A, B |-> B, C |-> C, D |-> D,
     alpha |-> alpha, beta |-> beta, gamma |-> gamma, T_bath |-> T_bath]

\* parameter sets inside the bounds R_int_fitting.py gives the fit
ParamSets ==
    { \* constant R_int = 1: V = I; the inner solve leaves its reach at V*I = 4
      Par(Fin(0), Fin(1), Fin(1), Fin(1), Fin(0), Fin(1), Fin(2), Fin(2)),
      \* R_int = 3 at every T in reach: V = 3 I; the bath temperature is out of
      \* the inner solve's reach, so that solve never converges
      Par(Fin(1), Fin(1), Fin(1), Fin(3), Fin(0), Fin(1), Fin(1), Fin(20)),
      \* R_int falls with T: a root at I = 1, none on the grid at I = 2
      Par(Fin(1), Fin(1), Fin(1), Fin(0), Fin(0), Fin(1), Fin(1), Fin(0)),
      \* bath below zero and a small B: exp(-T/B) overflows at T = T_bath
      Par(Fin(1), Rat(1, 10), Fin(1), Fin(0), Fin(0), Fin(1), Fin(1), Fin(-1)),
      \* alpha = 1: R_th has a pole at T = 0
      Par(Fin(0), Fin(1), Fin(1), Fin(1), Fin(1), Fin(1), Fin(1), Fin(1)) }

----------------------------------------------------------------------------
(* State *)

VARIABLES
    pc,       \* I_int2V_int: "idle" (not running; after a call, returned) or "loop"
    par,      \* the model parameters of the calls
    I_ints,   \* the argument of the current or last call
    V_int,    \* its output array
    i,        \* number of points the loop has processed
    trace,    \* per processed point: the outer solve and the residual at its x
    prevI,    \* argument and
    prevV,    \*   result of the call before the current one
    calls     \* calls started so far: "none", "one" or "two"

svars == <<pc, par, I_ints, V_int, i, trace, prevI, prevV, calls>>

\* an element of np.empty_like's result that was never assigned
empty == [k |-> "empty", n |-> 0, d |-> 1]

SolverInit ==
    /\ pc = "idle"
    /\ par \in ParamSets
    /\ I_ints = <<>>
    /\ V_int = <<>>
    /\ i = 0
    /\ trace = <<>>
    /\ prevI = <<>>
    /\ prevV = <<>>
    /\ calls = "none"

\* the reorderings of an array
Reorderings(arr) ==
    {[k \in 1..Len(arr) |-> arr[p[k]]] : p \in Permutations(1..Len(arr))}

\* I_int2V_int is entered: line 64
Enter(arr) ==
    /\ pc' = "loop"
    /\ I_ints' = arr
    /\ V_int' = [k \in 1..Len(arr) |-> empty]
    /\ i' = 0
    /\ trace' = <<>>
    /\ prevI' = I_ints
    /\ prevV' = V_int
    /\ UNCHANGED par

\* the first call of a behaviour, on any array of currents
Call(arr) ==
    /\ pc = "idle"
    /\ calls = "none"
    /\ calls' = "one"
    /\ Enter(arr)

\* a second call with the same parameters, on the same samples in any order
CallAgain(arr) ==
    /\ pc = "idle"
    /\ calls = "one"
    /\ calls' = "two"
    /\ Enter(arr)

\* one turn of the loop: lines 65-73
LoopStep ==
    /\ pc = "loop"
    /\ i < Len(I_ints)
    /\ LET I     == I_ints[i + 1]
           sol   == OuterSol(I, par, SubSeq(V_int, 1, i))
           inner == InnerSol(sol.x, I, par)
       IN  /\ V_int' = [V_int EXCEPT ![i + 1] = Stored(sol)]
           /\ trace' = Append(trace,
                  [success |-> sol.success, x |-> sol.x,
                   innerOk |-> inner.success, T_val |-> inner.x,
                   resid |-> solve4V_int(sol.x, I, par)])
    /\ i' = i + 1
    /\ UNCHANGED <<pc, par, I_ints, prevI, prevV, calls>>

\* the loop is exhausted: line 74
Return ==
    /\ pc = "loop"
    /\ i = Len(I_ints)
    /\ pc' = "idle"
    /\ UNCHANGED <<par, I_ints, V_int, i, trace, prevI, prevV, calls>>

----------------------------------------------------------------------------
(* solve4T on its own: the residual as a function of its six arguments *)

VARIABLES
    t_args,   \* the arguments of the last call of solve4T, <<>> before any
    t_res     \* the value it returned

tvars == <<t_args, t_res>>

Temperatures == {Fin(t) : t \in (-ExpOverflow - 3)..(ExpOverflow + 1)}
Powers == {Fin(-1), Fin(0), Fin(1), Rat(1, 2)}
Alphas == {Fin(0), Fin(1), Rat(1, 2)}
Betas == {Fin(1), Rat(1, 2)}
Gammas == {Fin(1), Fin(2)}
Baths == {Fin(-ExpOverflow - 2), Fin(0), Fin(2)}

TOff == t_args = <<>> /\ t_res = nan

\* solve4T(T, P, alpha, beta, gamma, T_bath): lines 13-21
CallSolve4T(T, P, alpha, beta, gamma, T_bath) ==
    /\ t_args = <<>>
    /\ t_args' = [T |-> T, P |-> P, alpha |-> alpha, beta |-> beta,
                  gamma |-> gamma, T_bath |-> T_bath]
    /\ t_res' = solve4T(T, P, alpha, beta, gamma, T_bath)

----------------------------------------------------------------------------
(* The fitters: fitting/R_int/fitting.py (thermal) and                     *)
(* antenna_params/utils/fitting.py with without_L/main.py (antenna).       *)
(* lmfit's Model.fit is the optimizer: it takes the data, the independent  *)
(* variables and the weights it is handed, evaluates the model function up *)
(* to max_nfev times, calls iter_cb after each evaluation and aborts when  *)
(* iter_cb returns True.  Its residual vectors and its convergence test    *)
(* are left open: any residual of a small set, convergence at any time.    *)

VARIABLES
    f_pc,     \* "idle", "fitting" (inside Model.fit) or "done"
    f_kind,   \* which fit: "thermal", "antenna", "none" before a call
    f_in,     \* the sample rows the caller holds
    opt,      \* what Model.fit was handed: data, independent variables, weights
    nfev,     \* function evaluations so far
    cb_ret,   \* what iter_cb returned last
    chi_log,  \* the chi-square iter_cb logged last
    stop,    \* why the fit ended: "converged", "max_nfev", "callback", "library"
    f_params  \* the lmfit Parameters handed to model.fit

fvars == <<f_pc, f_kind, f_in, opt, nfev, cb_ret, chi_log, stop, f_params>>

\* max_nfev of the thermal fit
max_nfev == 100
\* constants.Sb, --epsilon-fit's default and the 1e-3 of main.py line 50
Sb == 175000
epsilon_fit == 15000
Milli == Rat(1, 1000)

RECURSIVE SumSquares(_)
SumSquares(resid) ==
    IF resid = <<>> THEN Fin(0)
    ELSE FAdd(FMul(Head(resid), Head(resid)), SumSquares(Tail(resid)))

\* faulty variant: the callback stops the fit once chi-square is 0
fit_callback_StopsAtZero(iter, resid) ==
    [chi_sq |-> SumSquares(resid), ret |-> IsZero(SumSquares(resid))]

\* fit_callback: logs chi-square, returns False (lines 12-20)
fit_callback(iter, resid) ==
    [chi_sq |-> SumSquares(resid), ret |-> FALSE]

\* arr[mask]: boolean-mask indexing keeps the selected entries in order
RECURSIVE Select(_, _)
Select(arr, mask) ==
    IF arr = <<>> THEN <<>>
    ELSE (IF Head(mask) THEN <<Head(arr)>> ELSE <<>>)
         \o Select(Tail(arr), Tail(mask))

Square(arr) == [k \in 1..Len(arr) |-> FMul(arr[k], arr[k])]
Scale(arr, c) == [k \in 1..Len(arr) |-> FMul(arr[k], c)]

\* faulty variant: only the voltages are tested for NaN
ValidMask_VoltageOnly(I_int, V) == [k \in 1..Len(V) |-> ~isnan(V[k])]

\* valid = ~np.isnan(V_int) & ~np.isnan(I_int) (line 38)
ValidMask(I_int, V) ==
    [k \in 1..Len(V) |-> ~isnan(V[k]) /\ ~isnan(I_int[k])]

\* the arguments perform_fitting (thermal) gives model.fit (lines 38-48)
ThermalFitArgs(I_int, V) ==
    LET valid   == ValidMask(I_int, V)
        I_valid == Select(I_int, valid)
        V_valid == Select(V, valid)
    IN  [data |-> V_valid, indep |-> <<I_valid>>, weights |-> Square(V_valid)]

\* the arguments main and perform_fitting (antenna) give model.fit:
\* main.py lines 49-51 and 111-119, fitting.py line 43
AntennaFitArgs(R_int, BO, V) ==
    LET BO_exp    == Scale(BO, Milli)
        sb_scaled == Scale(BO_exp, Rat(epsilon_fit, Sb))
    IN  [data |-> sb_scaled, indep |-> <<V, R_int>>, weights |-> BO_exp]

ThermalValues == [I : {Fin(1), Fin(2), nan}, V : {Fin(3), nan}]
AntennaValues == [R : {Fin(1), nan}, BO : {Fin(2), nan}, V : {Fin(3), nan}]
Residuals == {<<Fin(0), Fin(0)>>, <<Fin(1), Fin(-2)>>}

Col(rows, f) == [k \in 1..Len(rows) |-> rows[k][f]]

\* Python's None, for an open bound
None == [k |-> "none", n |-> 0, d |-> 1]

\* x <= y on doubles
Leq(x, y) ==
    IF isnan(x) \/ isnan(y) THEN FALSE
    ELSE IF x = y THEN TRUE
    ELSE IF x.k = "inf" THEN x.n < 0
    ELSE IF y.k = "inf" THEN y.n > 0
    ELSE x.n * y.d <= y.n * x.d

\* R_int_fitting.py lines 63-92, the literals cut to seven digits
initial ==
    [A |-> Rat(1402632, 10000), B |-> Rat(7442877, 100000), C |-> Rat(2993711, 1000),
     D |-> Rat(1496643, 100000), alpha |-> Fin(0), beta |-> Rat(7007291, 100000000),
     gamma |-> Rat(7162304, 1000), T_bath |-> Rat(-2629469, 100000)]
bounds ==
    [A |-> <<Fin(0), None>>, B |-> <<Fin(0), Fin(500)>>, C |-> <<Fin(0), Fin(10000)>>,
     D |-> <<Fin(0), None>>, alpha |-> <<Fin(0), Rat(12, 10)>>,
     beta |-> <<Rat(5, 1000), Rat(1, 10)>>, gamma |-> <<Fin(0), Fin(8000)>>,
     T_bath |-> <<Fin(-50), Fin(40)>>]
vary ==
    [A |-> TRUE, B |-> TRUE, C |-> TRUE, D |-> TRUE, alpha |-> FALSE, beta |-> FALSE,
     gamma |-> TRUE, T_bath |-> TRUE]

\* without_L/main.py lines 60-98; L, C, C_intt, C_intb, L_ext and L_FG are
\* the literal times constants.e * 2 / constants.hbar / 808, cut to seven digits
par_val ==
    [ratio |-> Fin(1), R |-> Rat(5504, 100), L |-> Rat(1229704, 1000),
     C |-> Rat(1033403, 1000000000), C_intt |-> Rat(1631708, 10000),
     C_intb |-> Rat(1211653, 100000), R_loss_t |-> Rat(202, 1000),
     R_loss_b |-> Rat(2922, 1000), Ic |-> Rat(18, 1000), R_ext |-> Rat(115, 100),
     L_ext |-> Rat(3760563, 100), R_gnd |-> Rat(720, 100), R_mid |-> Rat(829, 100),
     R_FG |-> Fin(50), L_FG |-> Rat(3760563, 100), N |-> Fin(848)]
par_min == [name \in DOMAIN par_val |-> IF name = "N" THEN Fin(1) ELSE Fin(0)]
par_max == [name \in DOMAIN par_val |-> inf]
par_vary == [name \in DOMAIN par_val |-> name \in {"R", "L", "C"}]

\* the parameters of output_power that are not independent variables
param_names ==
    {"ratio", "R", "L", "C", "C_intt", "C_intb", "R_loss_t", "R_loss_b", "Ic",
     "R_ext", "L_ext", "R_gnd", "R_mid", "R_FG", "L_FG", "N"}

\* faulty variant: the two bounds are passed the wrong way round
ParamSet_SwapsBounds(value, minb, maxb, v) ==
    [value |-> value,
     min   |-> IF maxb = None THEN ninf ELSE maxb,
     max   |-> IF minb = None THEN inf ELSE minb,
     vary  |-> v]

\* p.set(value=..., min=..., max=..., vary=...): a bound of None is open
ParamSet(value, minb, maxb, v) ==
    [value |-> value,
     min   |-> IF minb = None THEN ninf ELSE minb,
     max   |-> IF maxb = None THEN inf ELSE maxb,
     vary  |-> v]

\* the loop of R_int_fitting.py lines 95-99
ThermalParams ==
    [name \in DOMAIN initial |->
        ParamSet(initial[name], bounds[name][1], bounds[name][2], vary[name])]

\* the loop of without_L/main.py lines 102-109
AntennaParams ==
    [name \in param_names |->
        ParamSet(par_val[name], par_min[name], par_max[name], par_vary[name])]

FitInit ==
    /\ f_pc = "idle"
    /\ f_params = <<>>
    /\ f_kind = "none"
    /\ f_in = <<>>
    /\ opt = <<>>
    /\ nfev = 0
    /\ cb_ret = FALSE
    /\ chi_log = nan
    /\ stop = "none"

\* perform_fitting of fitting/R_int/fitting.py up to the call of model.fit
ThermalFit(rows) ==
    /\ f_pc = "idle"
    /\ f_pc' = "fitting"
    /\ f_kind' = "thermal"
    /\ f_in' = rows
    /\ opt' = ThermalFitArgs(Col(rows, "I"), Col(rows, "V"))
    /\ f_params' = ThermalParams
    /\ UNCHANGED <<nfev, cb_ret, chi_log, stop>>

\* one function evaluation inside model.fit, followed by iter_cb
FitEvaluate(resid) ==
    /\ f_pc = "fitting"
    /\ nfev < max_nfev
    /\ nfev' = nfev + 1
    /\ LET cb == fit_callback(nfev + 1, resid)
       IN  /\ cb_ret' = cb.ret
           /\ chi_log' = cb.chi_sq
           /\ IF cb.ret
              THEN f_pc' = "done" /\ stop' = "callback"
              ELSE UNCHANGED <<f_pc, stop>>
    /\ UNCHANGED <<f_kind, f_in, opt, f_params>>

\* the optimizer's own convergence test ends the fit
FitConverge ==
    /\ f_pc = "fitting"
    /\ nfev > 0
    /\ f_pc' = "done"
    /\ stop' = "converged"
    /\ UNCHANGED <<f_kind, f_in, opt, nfev, cb_ret, chi_log, f_params>>

\* the evaluation cap ends the fit
FitCap ==
    /\ f_pc = "fitting"
    /\ nfev = max_nfev
    /\ f_pc' = "done"
    /\ stop' = "max_nfev"
    /\ UNCHANGED <<f_kind, f_in, opt, nfev, cb_ret, chi_log, f_params>>

\* the antenna script's fit: no callback and no cap are given, the library
\* runs the whole fit on what it was handed
AntennaFit(rows) ==
    /\ f_pc = "idle"
    /\ f_pc' = "done"
    /\ f_kind' = "antenna"
    /\ f_in' = rows
    /\ opt' = AntennaFitArgs(Col(rows, "R"), Col(rows, "BO"), Col(rows, "V"))
    /\ stop' = "library"
    /\ f_params' = AntennaParams
    /\ UNCHANGED <<nfev, cb_ret, chi_log>>

----------------------------------------------------------------------------
(* antenna_param_fit/model.py: parallel_sum.  An argument is a Python      *)
(* scalar or a NumPy array; arrays have two positions and scalars          *)
(* broadcast over them.  Impedances are real here: a negative value stands *)
(* for a reactance of the opposite sign, which is what lets admittances    *)
(* cancel.                                                                 *)

VARIABLES
    p_pc,     \* "idle", "returned" or "raised" (ZeroDivisionError)
    p_args,   \* the impedances parallel_sum was called with
    p_out,    \* total_susceptance, safe_susceptance and Z_tot of the call
    s_pc,     \* "idle" or "returned": the call of series_sum
    s_args,   \* the impedances series_sum was called with
    s_out     \* what series_sum returned

pvars == <<p_pc, p_args, p_out, s_pc, s_args, s_out>>

Positions == {1, 2}

\* epsilon = 1e-20 in the code; 1e-9 here, TLC's integers being 32 bits wide
epsilon == Rat(1, 1000000000)

ZValues == {Fin(0), Fin(1), Fin(-1), Fin(2), Fin(7), inf}
PyScalars == [py : {TRUE}, z : ZValues]
NpArrays == [py : {FALSE}, z : [Positions -> ZValues]]
Impedances == PyScalars \cup NpArrays

\* the value of an argument at a position
At(arg, pos) == IF arg.py THEN arg.z ELSE arg.z[pos]

\* Python's sum(): 0 + s1 + s2 + ...
RECURSIVE SumAt(_, _)
SumAt(zs, pos) ==
    IF zs = <<>> THEN Fin(0)
    ELSE RAdd(SumAt(SubSeq(zs, 1, Len(zs) - 1), pos),
              RDiv(Fin(1), At(zs[Len(zs)], pos)))

\* 1 / z on a Python scalar 0 raises ZeroDivisionError (line 51)
RaisesZeroDivision(zs) == \E k \in 1..Len(zs) : zs[k].py /\ IsZero(zs[k].z)

\* faulty variant: a zero branch is treated as an open circuit and never raises
parallel_sum_OpenOnZeroBranch(zs) ==
    LET open  == [pos \in Positions |-> \E k \in 1..Len(zs) : IsZero(At(zs[k], pos))]
        total == [pos \in Positions |-> IF open[pos] THEN Fin(0) ELSE SumAt(zs, pos)]
        safe  == [pos \in Positions |-> IF ~IsZero(total[pos]) THEN total[pos] ELSE epsilon]
    IN  [raised |-> FALSE, total |-> total, safe |-> safe,
         Z_tot |-> [pos \in Positions |->
                       IF ~IsZero(total[pos]) THEN RDiv(Fin(1), safe[pos]) ELSE inf]]

\* faulty variant: the first impedance is left out of the sum
parallel_sum_DropsBranch(zs) ==
    LET rest  == SubSeq(zs, 2, Len(zs))
        total == [pos \in Positions |-> SumAt(rest, pos)]
        safe  == [pos \in Positions |->
                     IF ~IsZero(total[pos]) THEN total[pos] ELSE epsilon]
    IN  [raised |-> RaisesZeroDivision(zs), total |-> total, safe |-> safe,
         Z_tot |-> [pos \in Positions |->
                       IF ~IsZero(total[pos]) THEN RDiv(Fin(1), safe[pos]) ELSE inf]]

\* faulty variant: the reciprocal is taken of the total itself
parallel_sum_NoGuard(zs) ==
    LET total == [pos \in Positions |-> SumAt(zs, pos)]
    IN  [raised |-> RaisesZeroDivision(zs), total |-> total, safe |-> total,
         Z_tot |-> [pos \in Positions |-> RDiv(Fin(1), total[pos])]]

\* parallel_sum(*impedances): lines 51-60
parallel_sum(zs) ==
    LET total == [pos \in Positions |-> SumAt(zs, pos)]
        safe  == [pos \in Positions |->
                     IF ~IsZero(total[pos]) THEN total[pos] ELSE epsilon]
        Z_1   == [pos \in Positions |-> RDiv(Fin(1), safe[pos])]
        Z_tot == [pos \in Positions |->
                     IF ~IsZero(total[pos]) THEN Z_1[pos] ELSE inf]
    IN  [raised |-> RaisesZeroDivision(zs), total |-> total, safe |-> safe,
         Z_tot |-> Z_tot]

\* result + z (line 36): Python scalars add to a scalar, and a scalar
\* broadcasts over an array
Plus(x, y) ==
    IF x.py /\ y.py THEN [py |-> TRUE, z |-> RAdd(x.z, y.z)]
    ELSE [py |-> FALSE, z |-> [pos \in Positions |-> RAdd(At(x, pos), At(y, pos))]]

\* the loop of lines 34-37: impedances[0] + impedances[1] + ...
RECURSIVE SeriesFold(_)
SeriesFold(zs) ==
    IF Len(zs) = 1 THEN zs[1]
    ELSE Plus(SeriesFold(SubSeq(zs, 1, Len(zs) - 1)), zs[Len(zs)])

\* faulty variant: the loop runs over impedances[2:] and skips the second
series_sum_SkipsSecond(zs) ==
    IF zs = <<>> THEN [py |-> FALSE, z |-> <<>>]
    ELSE SeriesFold(<<zs[1]>> \o SubSeq(zs, 3, Len(zs)))

\* series_sum(*impedances): lines 28-38; no argument gives an empty array
series_sum(zs) ==
    IF zs = <<>> THEN [py |-> FALSE, z |-> <<>>]
    ELSE SeriesFold(zs)

SeriesValues == {Fin(1), Fin(-1), Fin(8), inf, ninf}
SeriesArgs ==
    [py : {TRUE}, z : SeriesValues] \cup [py : {FALSE}, z : [Positions -> {Fin(1), Fin(8)}]]

ParInit ==
    /\ p_pc = "idle"
    /\ p_args = <<>>
    /\ p_out = <<>>
    /\ s_pc = "idle"
    /\ s_args = <<>>
    /\ s_out = <<>>

\* one call of parallel_sum: it returns Z_tot, or raises in line 51
CallParallelSum(zs) ==
    /\ p_pc = "idle"
    /\ p_args' = zs
    /\ IF parallel_sum(zs).raised
       THEN p_pc' = "raised" /\ p_out' = <<>>
       ELSE p_pc' = "returned" /\ p_out' = parallel_sum(zs)
    /\ UNCHANGED <<s_pc, s_args, s_out>>

\* one call of series_sum
CallSeriesSum(zs) ==
    /\ s_pc = "idle"
    /\ s_pc' = "returned"
    /\ s_args' = zs
    /\ s_out' = series_sum(zs)
    /\ UNCHANGED <<p_pc, p_args, p_out>>

----------------------------------------------------------------------------
(* Tables: fitting/R_int/processing.py (process_data) and                  *)
(* fitting/R_int/io.py, fitting/io.py (save_processed_data, load_data).    *)
(* A table is its column names, in order, and its rows; a row maps each    *)
(* column name to a double.  The arithmetic on columns is exact.           *)

VARIABLES
    d_pc,       \* "idle", "returned", "raised" (KeyError), "saved", "loaded",
                \* "save_error" or "load_error"
    d_in,       \* the table process_data was called with, as it was then
    d_heap,     \* the table objects: the first is the one the caller passed
    d_out,      \* the table it returned
    d_missing,  \* the set of names reported in the KeyError
    d_file,     \* the lines of the file save_processed_data wrote
    d_loaded,   \* the table load_data read back from that file
    d_log       \* what the loader and the saver logged

dvars == <<d_pc, d_in, d_heap, d_out, d_missing, d_file, d_loaded, d_log>>

Required == {"Reduced Voltage", "Current"}

Names(cols) == {cols[k] : k \in 1..Len(cols)}

\* df[name] = value: a new column goes last, an existing one keeps its place
SetColumn(df, name, column) ==
    [cols |-> IF name \in Names(df.cols) THEN df.cols ELSE Append(df.cols, name),
     rows |-> [k \in 1..Len(df.rows) |->
                 [c \in Names(df.cols) \cup {name} |->
                     IF c = name THEN column[k] ELSE df.rows[k][c]]]]

Column(df, name) == [k \in 1..Len(df.rows) |-> df.rows[k][name]]

\* faulty variant: the two scale factors are exchanged
process_data_SwapsScale(df) ==
    IF Required \subseteq Names(df.cols)
    THEN LET V == Column(df, "Reduced Voltage")
             I == Column(df, "Current")
             power == [k \in 1..Len(df.rows) |-> FMul(FMul(V[k], I[k]), Fin(1000))]
             resistance == [k \in 1..Len(df.rows) |-> FMul(FDiv(V[k], I[k]), Milli)]
         IN  [raised |-> FALSE, missing |-> {},
              df |-> SetColumn(SetColumn(df, "Power", power), "Resistance", resistance)]
    ELSE [raised |-> TRUE, missing |-> Required \ Names(df.cols), df |-> <<>>]

\* faulty variant: the error names both required columns whatever is absent
process_data_NamesBoth(df) ==
    IF Required \subseteq Names(df.cols)
    THEN LET V == Column(df, "Reduced Voltage")
             I == Column(df, "Current")
             power == [k \in 1..Len(df.rows) |-> FMul(FMul(V[k], I[k]), Milli)]
             resistance == [k \in 1..Len(df.rows) |-> FMul(FDiv(V[k], I[k]), Fin(1000))]
         IN  [raised |-> FALSE, missing |-> {},
              df |-> SetColumn(SetColumn(df, "Power", power), "Resistance", resistance)]
    ELSE [raised |-> TRUE, missing |-> Required, df |-> <<>>]

\* process_data(df): lines 17-32
process_data(df) ==
    IF "Reduced Voltage" \in Names(df.cols) /\ "Current" \in Names(df.cols)
    THEN LET V == Column(df, "Reduced Voltage")
             I == Column(df, "Current")
             power == [k \in 1..Len(df.rows) |-> FMul(FMul(V[k], I[k]), Milli)]
             resistance == [k \in 1..Len(df.rows) |-> FMul(FDiv(V[k], I[k]), Fin(1000))]
         IN  [raised |-> FALSE, missing |-> {},
              df |-> SetColumn(SetColumn(df, "Power", power), "Resistance", resistance)]
    ELSE [raised |-> TRUE, missing |-> Required \ Names(df.cols), df |-> <<>>]

\* the tables process_data is called with: column layouts and cell values
Layouts ==
    { <<"Current", "Reduced Voltage">>, <<"Time", "Reduced Voltage", "Current">>,
      <<"Current", "Power", "Reduced Voltage">>,
      <<"Current">>, <<"Time", "Reduced Voltage">>, <<"Time">> }

CellValues(name) ==
    IF name = "Current" THEN {Fin(0), Fin(1), Fin(2)}
    ELSE IF name = "Reduced Voltage" THEN {Rat(1, 10), Rat(1, 5), nan}
    ELSE IF name = "Time" THEN {Fin(5)}
    ELSE {Fin(9)}

RowsOf(cols) == {r \in [Names(cols) -> UNION {CellValues(c) : c \in Names(cols)}] :
                    \A c \in Names(cols) : r[c] \in CellValues(c)}

Tables == UNION {[cols : {cols}, rows : Arrays(RowsOf(cols), MaxRows)] : cols \in Layouts}

TabInit ==
    /\ d_pc = "idle"
    /\ d_in = <<>>
    /\ d_heap = <<>>
    /\ d_out = <<>>
    /\ d_missing = {}
    /\ d_file = <<>>
    /\ d_loaded = <<>>
    /\ d_log = <<>>

\* faulty variant: no copy is made, df_processed is the caller's object
copy_Alias(heap, obj) == [heap |-> heap, obj |-> obj]

\* df.copy(): a new object that holds what the copied one holds
copy(heap, obj) == [heap |-> Append(heap, heap[obj]), obj |-> Len(heap) + 1]

\* one call of process_data: df_processed = df.copy(), then the columns are
\* assigned in the object df_processed names; it returns that object or
\* raises KeyError
ProcessData(df) ==
    /\ d_pc = "idle"
    /\ d_in' = df
    /\ LET made == copy(<<df>>, 1)
           df_processed == made.obj
           res == process_data(made.heap[df_processed])
       IN  IF res.raised
           THEN /\ d_pc' = "raised"
                /\ d_missing' = res.missing
                /\ d_heap' = made.heap
                /\ d_out' = <<>>
           ELSE /\ d_pc' = "returned"
                /\ d_missing' = {}
                /\ d_heap' = [made.heap EXCEPT ![df_processed] = res.df]
                /\ d_out' = res.df
    /\ UNCHANGED <<d_file, d_loaded, d_log>>

RECURSIVE Pow10(_)
Pow10(e) == IF e = 0 THEN 1 ELSE 10 * Pow10(e - 1)

\* the number of decimal places of n/d: a double is a dyadic rational, its
\* decimal expansion ends, and repr prints digits that read back the same
RECURSIVE Places(_, _)
Places(d, e) == IF Pow10(e) % d = 0 THEN e ELSE Places(d, e + 1)

\* a cell as to_csv writes it: nothing for nan, "inf" or "-inf", else the
\* decimal m / 10^e
FormatCell(x) ==
    IF isnan(x) THEN [t |-> "empty", m |-> 0, e |-> 0]
    ELSE IF x.k = "inf" THEN [t |-> "inf", m |-> x.n, e |-> 0]
    ELSE LET e == Places(x.d, 0)
         IN  [t |-> "dec", m |-> (x.n * Pow10(e)) \div x.d, e |-> e]

\* a cell as read_table parses it
ParseCell(c) ==
    IF c.t = "empty" THEN nan
    ELSE IF c.t = "inf" THEN SignedInf(c.m)
    ELSE Rat(c.m, Pow10(c.e))

\* df.to_csv(file_path, sep="\t", index=True): the header line starts with
\* the empty label of the index and every line with the row's index
to_csv(df) ==
    [header |-> <<"">> \o df.cols,
     lines  |-> [k \in 1..Len(df.rows) |->
                   <<FormatCell(Fin(k - 1))>> \o
                   [j \in 1..Len(df.cols) |-> FormatCell(df.rows[k][df.cols[j]])]]]

\* the name read_table gives the header cell at position j: an empty cell is
\* named after its position
HeaderName(file, j) ==
    IF file.header[j] = ""
    THEN (IF j = 1 THEN "Unnamed: 0" ELSE "Unnamed")
    ELSE file.header[j]

\* pd.read_table(file_path): every header cell names a column
read_table(file) ==
    LET cols == [j \in 1..Len(file.header) |-> HeaderName(file, j)]
    IN  [cols |-> cols,
         rows |-> [k \in 1..Len(file.lines) |->
                     [c \in Names(cols) |->
                         ParseCell(file.lines[k][CHOOSE j \in 1..Len(cols) : cols[j] = c])]]]

\* faulty variant: the index is left out of the file
save_processed_data_NoIndex(df, fails) ==
    IF fails
    THEN [raised |-> TRUE, file |-> <<>>,
          log |-> <<[level |-> "exception", msg |-> "Error saving processed data"]>>]
    ELSE [raised |-> FALSE,
          file |-> [header |-> df.cols,
                    lines |-> [k \in 1..Len(df.rows) |->
                                 [j \in 1..Len(df.cols) |-> FormatCell(df.rows[k][df.cols[j]])]]],
          log |-> <<[level |-> "info", msg |-> "Processed data saved"]>>]

\* save_processed_data(df, file_path): io.py lines 28-37; fails says whether
\* to_csv raises
save_processed_data(df, fails) ==
    IF fails
    THEN [raised |-> TRUE, file |-> <<>>,
          log |-> <<[level |-> "exception", msg |-> "Error saving processed data"]>>]
    ELSE [raised |-> FALSE, file |-> to_csv(df),
          log |-> <<[level |-> "info", msg |-> "Processed data saved"]>>]

\* load_data(file_path): io.py lines 9-25; fails says whether read_table raises
load_data(file, fails) ==
    IF fails
    THEN [raised |-> TRUE, df |-> <<>>,
          log |-> <<[level |-> "exception", msg |-> "Error loading data"]>>]
    ELSE [raised |-> FALSE, df |-> read_table(file),
          log |-> <<[level |-> "info", msg |-> "Data loaded successfully"],
                    [level |-> "debug", msg |-> "DataFrame columns"]>>]

\* the processed table is saved
SaveProcessed(fails) ==
    /\ d_pc = "returned"
    /\ LET res == save_processed_data(d_out, fails)
       IN  /\ d_pc' = IF res.raised THEN "save_error" ELSE "saved"
           /\ d_file' = res.file
           /\ d_log' = d_log \o res.log
    /\ UNCHANGED <<d_in, d_heap, d_out, d_missing, d_loaded>>

\* the saved file is loaded again
LoadSaved(fails) ==
    /\ d_pc = "saved"
    /\ LET res == load_data(d_file, fails)
       IN  /\ d_pc' = IF res.raised THEN "load_error" ELSE "loaded"
           /\ d_loaded' = res.df
           /\ d_log' = d_log \o res.log
    /\ UNCHANGED <<d_in, d_heap, d_out, d_missing, d_file>>

----------------------------------------------------------------------------
(* The scripts: fitting/R_int_fitting.py (thermal fit),                    *)
(* antenna_params/without_L/main.py (antenna fit),                         *)
(* post_processing/phase_analysis.py and post_processing/time_averaging.py.*)
(* A run is one call of a script's main in an environment that fixes the   *)
(* input file, the file operations that fail, the command-line options and *)
(* how the optimizer ends.  An exception nothing catches ends the run.     *)

VARIABLES
    r_script,   \* "none", or the script that runs
    r_pc,       \* the statement of main that runs next, "exit" or "died"
    r_env,      \* the environment of the run
    r_df,       \* the table main holds
    r_result,   \* what perform_fitting returned
    r_log,      \* the records logged so far
    r_files,    \* the files written so far
    r_holds,    \* what each file holds: the step that wrote it last
    r_done,     \* the calls made so far, in order
    r_exc       \* the exception that ended the run and the call that raised it

rvars == <<r_script, r_pc, r_env, r_df, r_result, r_log, r_files, r_holds, r_done, r_exc>>

NoExc == [type |-> "none", at |-> "none", names |-> {}]

NoResult == [success |-> FALSE, best_values |-> "none"]

RunInit ==
    /\ r_script = "none"
    /\ r_pc = "idle"
    /\ r_env = <<>>
    /\ r_df = <<>>
    /\ r_result = NoResult
    /\ r_log = <<>>
    /\ r_files = {}
    /\ r_holds = <<>>
    /\ r_done = <<>>
    /\ r_exc = NoExc

LogRec(level, msg) == [level |-> level, msg |-> msg]

\* a call main made, and for an evaluation of the model the parameter values
Did(name) == [call |-> name, at |-> "-"]

\* a logged list of column names
LogNames(level, msg, names) == [level |-> level, msg |-> msg, names |-> names]

\* the statement ends normally and main goes on to the next one; a file
\* written again holds what the last writer put there
Goes(next, made, logs, files) ==
    /\ r_pc' = next
    /\ r_done' = r_done \o made
    /\ r_log' = r_log \o logs
    /\ r_files' = r_files \cup files
    /\ r_holds' = [f \in DOMAIN r_holds \cup files |-> IF f \in files THEN r_pc ELSE r_holds[f]]
    /\ r_exc' = r_exc

\* the statement raises and nothing in main catches it; names are the column
\* names the exception carries
Dies(type, at, names, made, logs) ==
    /\ r_pc' = "died"
    /\ r_done' = r_done \o made
    /\ r_log' = r_log \o logs
    /\ r_files' = r_files
    /\ r_holds' = r_holds
    /\ r_exc' = [type |-> type, at |-> at, names |-> names]

\* how model.fit ends: with the success flag set, with it cleared (the
\* iteration cap, an abort by the callback), or by raising
FitOutcomes == {"converged", "not_converged", "raises"}

\* result.success and result.best_values; best_values is filled in either way
FitResult(outcome) ==
    [success |-> outcome = "converged",
     best_values |-> IF outcome = "converged" THEN "optimum" ELSE "last_iterate"]

(* fitting/R_int_fitting.py *)

\* input files of the thermal script: one data line under each header
InputFile(cols) ==
    [header |-> cols,
     lines  |-> <<[j \in 1..Len(cols) |->
                    FormatCell(IF cols[j] = "Current" THEN Fin(2)
                               ELSE IF cols[j] = "Reduced Voltage" THEN Rat(1, 5)
                               ELSE Fin(5))]>>]

InputFiles == {InputFile(cols) : cols \in Layouts}

\* the file operations of the thermal script
ThermalIO ==
    {"load_data", "save_processed_data", "plot_thermal_resistance",
     "plot_voltage_current", "plot_current_temperature",
     "plot_current_thermal_resistance"}

\* --output-plot: the default, or the empty string
OutputPlots == {"fit_plots.pdf", "fit_plots.png", ""}

ThermalEnvs ==
    [input : InputFiles, fails : SUBSET ThermalIO, fit : FitOutcomes,
     output_data : {"processed_data.dat"}, output_plot : OutputPlots]

\* output.replace(".pdf", suffix) on the paths of OutputPlots
Replace(output, suffix) ==
    IF output = "fit_plots.pdf"
    THEN (IF suffix = "_Temperature_vs_Current.pdf"
          THEN "fit_plots_Temperature_vs_Current.pdf"
          ELSE "fit_plots_Thermal_Resistance_vs_Current.pdf")
    ELSE output

\* main starts: logging is configured and the arguments are parsed
RunThermal(env) ==
    /\ r_script = "none"
    /\ r_script' = "thermal"
    /\ r_env' = env
    /\ r_pc' = "load_data"
    /\ UNCHANGED <<r_df, r_result, r_log, r_files, r_holds, r_done, r_exc>>

\* df = load_data(args.input_file)
RunThermalLoad ==
    /\ r_script = "thermal" /\ r_pc = "load_data"
    /\ LET res == load_data(r_env.input, "load_data" \in r_env.fails)
       IN  IF res.raised
           THEN Dies("OSError", "load_data", {}, <<Did("load_data")>>, res.log) /\ r_df' = r_df
           ELSE Goes("process_data", <<Did("load_data")>>, res.log, {}) /\ r_df' = res.df
    /\ UNCHANGED <<r_script, r_env, r_result>>

\* faulty variant: a table without the required columns is passed on as it is
RunThermalProcess_PassesOn ==
    /\ r_script = "thermal" /\ r_pc = "process_data"
    /\ LET res == process_data(r_df)
       IN  IF res.raised
           THEN /\ Goes("save_processed_data", <<Did("process_data")>>,
                        <<LogNames("error", "Missing columns for processing", res.missing)>>, {})
                /\ r_df' = r_df
           ELSE /\ Goes("save_processed_data", <<Did("process_data")>>,
                        <<LogRec("info", "Calculated 'Power' and 'Resistance' columns")>>, {})
                /\ r_df' = res.df
    /\ UNCHANGED <<r_script, r_env, r_result>>

\* df_proc = process_data(df)
RunThermalProcess ==
    /\ r_script = "thermal" /\ r_pc = "process_data"
    /\ LET res == process_data(r_df)
       IN  IF res.raised
           THEN /\ Dies("KeyError", "process_data", res.missing, <<Did("process_data")>>,
                        <<LogNames("error", "Missing columns for processing", res.missing)>>)
                /\ r_df' = r_df
           ELSE /\ Goes("save_processed_data", <<Did("process_data")>>,
                        <<LogRec("info", "Calculated 'Power' and 'Resistance' columns")>>, {})
                /\ r_df' = res.df
    /\ UNCHANGED <<r_script, r_env, r_result>>

\* save_processed_data(df_proc, args.output_data)
RunThermalSave ==
    /\ r_script = "thermal" /\ r_pc = "save_processed_data"
    /\ LET res == save_processed_data(r_df, "save_processed_data" \in r_env.fails)
       IN  IF res.raised
           THEN Dies("OSError", "save_processed_data", {}, <<Did("save_processed_data")>>, res.log)
           ELSE Goes("perform_fitting", <<Did("save_processed_data")>>, res.log,
                     {r_env.output_data})
    /\ UNCHANGED <<r_script, r_env, r_df, r_result>>

\* faulty variant: a fit that did not converge ends the script
RunThermalFit_ChecksSuccess ==
    /\ r_script = "thermal" /\ r_pc = "perform_fitting"
    /\ IF r_env.fit = "raises"
       THEN Dies("FitError", "perform_fitting", {}, <<Did("perform_fitting")>>, <<>>)
            /\ r_result' = r_result
       ELSE /\ Goes(IF r_env.fit = "converged" THEN "plot_thermal_resistance" ELSE "exit",
                    <<Did("perform_fitting")>>, <<LogRec("info", "Fitting completed")>>, {})
            /\ r_result' = FitResult(r_env.fit)
    /\ UNCHANGED <<r_script, r_env, r_df>>

\* the arrays, the model and its parameters are set up and
\* result = perform_fitting(model, params, I_int, V_int) is called
RunThermalFit ==
    /\ r_script = "thermal" /\ r_pc = "perform_fitting"
    /\ IF r_env.fit = "raises"
       THEN Dies("FitError", "perform_fitting", {}, <<Did("perform_fitting")>>, <<>>)
            /\ r_result' = r_result
       ELSE /\ Goes("plot_thermal_resistance", <<Did("perform_fitting")>>,
                    <<LogRec("info", "Fitting completed")>>, {})
            /\ r_result' = FitResult(r_env.fit)
    /\ UNCHANGED <<r_script, r_env, r_df>>

\* a plot function of R_int/plot.py called from main: the model is evaluated
\* at result.best_values, the figure is drawn, and it is saved when the
\* output path is not empty; nothing guards savefig
ThermalPlot(step, next, evals, file) ==
    /\ r_script = "thermal" /\ r_pc = step
    /\ LET made == [k \in 1..Len(evals) |->
                        [call |-> evals[k], at |-> r_result.best_values]] \o <<Did(step)>>
       IN  IF r_env.output_plot = ""
           THEN Goes(next, made, <<>>, {})
           ELSE IF step \in r_env.fails
                THEN Dies("OSError", step, {}, made, <<>>)
                ELSE Goes(next, made, <<LogRec("info", "plot saved")>>, {file})
    /\ UNCHANGED <<r_script, r_env, r_df, r_result>>

\* plot_thermal_resistance(result, output=args.output_plot)
RunThermalPlotRth ==
    ThermalPlot("plot_thermal_resistance", "plot_voltage_current", <<"T2R_th">>,
                r_env.output_plot)

\* V_cal = I_int2V_int(I_int, **result.best_values); plot_voltage_current
RunThermalPlotVI ==
    ThermalPlot("plot_voltage_current", "plot_current_temperature", <<"I_int2V_int">>,
                r_env.output_plot)

\* P_cal, T_cal = P2T(...); plot_current_temperature
RunThermalPlotIT ==
    ThermalPlot("plot_current_temperature", "plot_current_thermal_resistance",
                <<"P2T">>, Replace(r_env.output_plot, "_Temperature_vs_Current.pdf"))

\* R_th_cal = T2R_th(...); plot_current_thermal_resistance; main returns
RunThermalPlotIRth ==
    ThermalPlot("plot_current_thermal_resistance", "exit", <<"T2R_th">>,
                Replace(r_env.output_plot, "_Thermal_Resistance_vs_Current.pdf"))

(* fitting/antenna_params/without_L/main.py.  Only the column names of the *)
(* three input tables matter to the control flow.                          *)

BolometerColumns == <<"Resistance", "Bolometer Output", "Reduced Voltage">>

IveColumns == <<"Resistance", "Reduced Voltage", "Current", "Bolometer Detection">>

\* the columns of the text data in the order plot_txt_data subscripts them
TxtColumns == <<"V(nt)", "V(na)", "power", "I(Rfg)">>

\* df[name] for each name in turn: the first absent name raises KeyError
RECURSIVE FirstMissing(_, _)
FirstMissing(order, cols) ==
    IF order = <<>> THEN {}
    ELSE IF Head(order) \notin cols THEN {Head(order)}
    ELSE FirstMissing(Tail(order), cols)

\* the file operations of the antenna script
AntennaIO ==
    {"load_data", "plot_fitting_results", "plot_fitting_results_macro",
     "load_txt_data", "plot_txt_data", "plot_complex_figure"}

AntennaEnvs ==
    [bo  : {Names(BolometerColumns) \ m : m \in SUBSET {"Resistance", "Bolometer Output"}},
     ive : {Names(IveColumns) \ m : m \in {{}, {"Current"}, {"Bolometer Detection"}}},
     txt : {Names(TxtColumns) \ m : m \in {{}, {"power"}, {"V(na)", "I(Rfg)"}}},
     fails : {{}} \cup {{op} : op \in AntennaIO},
     fit : FitOutcomes, fig6 : {"Fig6.pdf"}, fig10 : {"Fig10.pdf"}]

\* main starts: logging is configured and the arguments are parsed
RunAntenna(env) ==
    /\ r_script = "none"
    /\ r_script' = "antenna"
    /\ r_env' = env
    /\ r_pc' = "load_data"
    /\ UNCHANGED <<r_df, r_result, r_log, r_files, r_holds, r_done, r_exc>>

\* bolometer_df, ive_df = load_data(args.bo_file, args.ive_file)
RunAntennaLoad ==
    /\ r_script = "antenna" /\ r_pc = "load_data"
    /\ IF "load_data" \in r_env.fails
       THEN /\ Dies("OSError", "load_data", {}, <<Did("load_data")>>,
                    <<LogRec("error", "Error loading experimental data")>>)
            /\ r_df' = r_df
       ELSE /\ Goes("columns", <<Did("load_data")>>,
                    <<LogRec("info", "Experimental data loaded successfully")>>, {})
            /\ r_df' = [bolometer_df |-> r_env.bo, ive_df |-> r_env.ive]
    /\ UNCHANGED <<r_script, r_env, r_result>>

\* the columns are taken out by name, the bolometer table first; pandas
\* raises KeyError for the first name that is absent and nothing is logged
RunAntennaColumns ==
    /\ r_script = "antenna" /\ r_pc = "columns"
    /\ LET missing == IF FirstMissing(BolometerColumns, r_df.bolometer_df) # {}
                      THEN FirstMissing(BolometerColumns, r_df.bolometer_df)
                      ELSE FirstMissing(IveColumns, r_df.ive_df)
       IN  IF missing # {}
           THEN Dies("KeyError", "columns", missing, <<Did("columns")>>, <<>>)
           ELSE Goes("perform_fitting", <<Did("columns")>>, <<>>, {})
    /\ UNCHANGED <<r_script, r_env, r_df, r_result>>

\* the parameters are set up and result = perform_fitting(...) is called
RunAntennaFit ==
    /\ r_script = "antenna" /\ r_pc = "perform_fitting"
    /\ IF r_env.fit = "raises"
       THEN Dies("FitError", "perform_fitting", {}, <<Did("perform_fitting")>>, <<>>)
            /\ r_result' = r_result
       ELSE /\ Goes("plot_fitting_results", <<Did("perform_fitting")>>,
                    <<LogRec("info", "Fitting completed"), LogRec("info", "fit_report"),
                      LogRec("info", "Best fit values")>>, {})
            /\ r_result' = FitResult(r_env.fit)
    /\ UNCHANGED <<r_script, r_env, r_df>>

\* a plot function of utils/plot.py called from main after the model was
\* evaluated at result.best_values: the figure is drawn and always saved;
\* nothing guards savefig
AntennaPlot(step, next, evals, file) ==
    /\ r_script = "antenna" /\ r_pc = step
    /\ LET made == [k \in 1..Len(evals) |->
                        [call |-> evals[k], at |-> r_result.best_values]] \o <<Did(step)>>
       IN  IF step \in r_env.fails
           THEN Dies("OSError", step, {}, made, <<>>)
           ELSE Goes(next, made, <<LogRec("info", "plot saved")>>, {file})
    /\ UNCHANGED <<r_script, r_env, r_df, r_result>>

\* RP_cal = output_power(V, R_int, ...best_values); plot_fitting_results
RunAntennaPlotFit ==
    AntennaPlot("plot_fitting_results", "plot_fitting_results_macro", <<"output_power">>,
                r_env.fig6)

\* RP_cal_macro = output_power(V_macro, R_macro, ...) and the second call of
\* plot_fitting_results, on the macro data
RunAntennaPlotMacro ==
    AntennaPlot("plot_fitting_results_macro", "load_txt_data", <<"output_power">>,
                r_env.fig6)

\* dc_sweep_df = load_txt_data(args.txt_file)
RunAntennaLoadTxt ==
    /\ r_script = "antenna" /\ r_pc = "load_txt_data"
    /\ IF "load_txt_data" \in r_env.fails
       THEN /\ Dies("OSError", "load_txt_data", {}, <<Did("load_txt_data")>>,
                    <<LogRec("error", "Error loading text data")>>)
            /\ r_df' = r_df
       ELSE /\ Goes("plot_txt_data", <<Did("load_txt_data")>>,
                    <<LogRec("info", "Text data loaded successfully")>>, {})
            /\ r_df' = [bolometer_df |-> r_df.bolometer_df, ive_df |-> r_df.ive_df,
                        dc_sweep_df |-> r_env.txt]
    /\ UNCHANGED <<r_script, r_env, r_result>>

\* plot_txt_data(df=dc_sweep_df, fig_path=args.fig10, ...): the columns are
\* subscripted while the figure is drawn, before it is saved
RunAntennaPlotTxt ==
    /\ r_script = "antenna" /\ r_pc = "plot_txt_data"
    /\ IF FirstMissing(TxtColumns, r_df.dc_sweep_df) # {}
       THEN Dies("KeyError", "plot_txt_data", FirstMissing(TxtColumns, r_df.dc_sweep_df),
                 <<Did("plot_txt_data")>>, <<>>)
       ELSE IF "plot_txt_data" \in r_env.fails
            THEN Dies("OSError", "plot_txt_data", {}, <<Did("plot_txt_data")>>, <<>>)
            ELSE Goes("plot_complex_figure", <<Did("plot_txt_data")>>,
                      <<LogRec("info", "plot saved")>>, {r_env.fig10})
    /\ UNCHANGED <<r_script, r_env, r_df, r_result>>

\* the columns of the text data, which plot_txt_data has subscripted
\* already, are taken out and plot_complex_figure is called; main returns
RunAntennaPlotComplex ==
    /\ r_script = "antenna" /\ r_pc = "plot_complex_figure"
    /\ IF "plot_complex_figure" \in r_env.fails
       THEN Dies("OSError", "plot_complex_figure", {}, <<Did("plot_complex_figure")>>, <<>>)
       ELSE Goes("exit", <<Did("plot_complex_figure")>>,
                 <<LogRec("info", "plot saved")>>, {r_env.fig10})
    /\ UNCHANGED <<r_script, r_env, r_df, r_result>>

(* post_processing/phase_analysis.py.  A table is its set of column names. *)

PhaseRequired == <<"time", "V(nphase1)", "V(nphase2)", "I(Rrad)">>

PlotRequired == <<"time", "V(nphase1)", "V(nphase2)", "power">>

\* [col for col in required if col not in df.columns]
MissingColumns(required, cols) == SelectSeq(required, LAMBDA c : c \notin cols)

\* a table of the phase script: its column names, what the time column
\* holds and what the index is
PhaseTable(cols) == [cols |-> cols, time |-> "seconds", index |-> "range"]

\* phase_analysis.process_data on the object df: lines 76-127
phase_process_data(heap, df, fails) ==
    LET made == copy(heap, df)
        df_processed == made.obj
        missing_columns == MissingColumns(PhaseRequired, made.heap[df_processed].cols)
        derived == [made.heap EXCEPT ![df_processed].cols = @ \cup {"dphase1", "dphase2", "power"}]
        converted == [derived EXCEPT ![df_processed].time = "datetime"]
        indexed == [converted EXCEPT ![df_processed].index = "time",
                                     ![df_processed].cols = @ \ {"time"}]
        df_resampled == Len(indexed) + 1
        resampled == Append(indexed, indexed[df_processed])
        reset == [resampled EXCEPT ![df_resampled].index = "range",
                                   ![df_resampled].cols = @ \cup {"time"}]
    IN  IF missing_columns # <<>>
        THEN [raised |-> "KeyError", missing |-> Names(missing_columns), heap |-> made.heap, obj |-> 0]
        ELSE IF "to_datetime" \in fails
        THEN [raised |-> "ValueError", missing |-> {}, heap |-> derived, obj |-> 0]
        ELSE [raised |-> "none", missing |-> {}, heap |-> reset, obj |-> df_resampled]

\* one call of phase_analysis.process_data on a table of the caller
ProcessPhaseData(cols, fails) ==
    /\ d_pc = "idle"
    /\ d_in' = PhaseTable(cols)
    /\ LET res == phase_process_data(<<PhaseTable(cols)>>, 1, fails)
       IN  /\ d_pc' = IF res.raised = "none" THEN "phase_returned" ELSE "phase_raised"
           /\ d_missing' = res.missing
           /\ d_heap' = res.heap
           /\ d_out' = IF res.raised = "none" THEN res.heap[res.obj] ELSE <<>>
    /\ UNCHANGED <<d_file, d_loaded, d_log>>

\* what can go wrong in the phase script besides the columns
PhaseIO == {"load_data", "to_datetime", "save_data", "savefig"}

PhaseEnvs ==
    [cols : {Names(PhaseRequired) \ m : m \in SUBSET {"time", "V(nphase2)", "I(Rrad)"}},
     fails : SUBSET PhaseIO,
     output_file : {"dc_sweep_JPE_phase_processed.txt"},
     plot_file : {"dc_sweep_JPE_phase.pdf", ""}]

\* main starts: the arguments are parsed
RunPhase(env) ==
    /\ r_script = "none"
    /\ r_script' = "phase"
    /\ r_env' = env
    /\ r_pc' = "load_data"
    /\ UNCHANGED <<r_df, r_result, r_log, r_files, r_holds, r_done, r_exc>>

\* df = load_data(args.input_file)
RunPhaseLoad ==
    /\ r_script = "phase" /\ r_pc = "load_data"
    /\ IF "load_data" \in r_env.fails
       THEN /\ Dies("OSError", "load_data", {}, <<Did("load_data")>>,
                    <<LogRec("error", "File not found")>>)
            /\ r_df' = r_df
       ELSE /\ Goes("process_data", <<Did("load_data")>>,
                    <<LogRec("info", "Data loaded successfully"),
                      LogRec("debug", "DataFrame columns")>>, {})
            /\ r_df' = [cols |-> r_env.cols]
    /\ UNCHANGED <<r_script, r_env, r_result>>

\* df_resampled = process_data(df, resample_interval=...)
RunPhaseProcess ==
    /\ r_script = "phase" /\ r_pc = "process_data"
    /\ LET missing_columns == MissingColumns(PhaseRequired, r_df.cols)
       IN  IF missing_columns # <<>>
           THEN /\ Dies("KeyError", "process_data", Names(missing_columns), <<Did("process_data")>>,
                        <<LogNames("error", "Missing columns in data", Names(missing_columns))>>)
                /\ r_df' = r_df
           ELSE IF "to_datetime" \in r_env.fails
           THEN /\ Dies("ValueError", "process_data", {}, <<Did("process_data")>>,
                        <<LogRec("info", "Computed 'dphase1' and 'dphase2'"),
                          LogRec("info", "Computed 'power'"),
                          LogRec("error", "Error converting 'time' to datetime")>>)
                /\ r_df' = r_df
           ELSE /\ Goes("save_data", <<Did("process_data")>>,
                        <<LogRec("info", "Computed 'dphase1' and 'dphase2'"),
                          LogRec("info", "Computed 'power'"),
                          LogRec("info", "Converted 'time' column to datetime"),
                          LogRec("info", "Set 'time' as index"),
                          LogRec("info", "Resampled data"),
                          LogRec("info", "Reset index after resampling"),
                          LogRec("debug", "'time' column dtype after processing")>>, {})
                /\ r_df' = [cols |-> r_df.cols \cup {"dphase1", "dphase2", "power"}]
    /\ UNCHANGED <<r_script, r_env, r_result>>

\* save_data(df_resampled, args.output_file)
RunPhaseSave ==
    /\ r_script = "phase" /\ r_pc = "save_data"
    /\ IF "save_data" \in r_env.fails
       THEN Dies("OSError", "save_data", {}, <<Did("save_data")>>,
                 <<LogRec("error", "Error saving data")>>)
       ELSE Goes("plot_data", <<Did("save_data")>>,
                 <<LogRec("info", "Processed data saved")>>, {r_env.output_file})
    /\ UNCHANGED <<r_script, r_env, r_df, r_result>>

\* faulty variant: the failure to save the plot is raised again
RunPhasePlot_Reraises ==
    /\ r_script = "phase" /\ r_pc = "plot_data"
    /\ LET missing_columns == MissingColumns(PlotRequired, r_df.cols)
       IN  IF missing_columns # <<>>
           THEN Dies("KeyError", "plot_data", Names(missing_columns), <<Did("plot_data")>>,
                     <<LogNames("error", "Missing columns for plotting", Names(missing_columns))>>)
           ELSE IF r_env.plot_file = ""
           THEN Goes("exit", <<Did("plot_data")>>, <<>>, {})
           ELSE IF "savefig" \in r_env.fails
           THEN Dies("OSError", "savefig", {}, <<Did("plot_data"), Did("savefig")>>,
                     <<LogRec("error", "Error saving plot")>>)
           ELSE Goes("exit", <<Did("plot_data"), Did("savefig")>>,
                     <<LogRec("info", "Plot saved")>>, {r_env.plot_file})
    /\ UNCHANGED <<r_script, r_env, r_df, r_result>>

\* plot_data(df_resampled, plot_path=args.plot_file, radius=args.radius):
\* the OSError of savefig is caught and logged, the figure is shown and
\* returned; main returns
RunPhasePlot ==
    /\ r_script = "phase" /\ r_pc = "plot_data"
    /\ LET missing_columns == MissingColumns(PlotRequired, r_df.cols)
       IN  IF missing_columns # <<>>
           THEN Dies("KeyError", "plot_data", Names(missing_columns), <<Did("plot_data")>>,
                     <<LogNames("error", "Missing columns for plotting", Names(missing_columns))>>)
           ELSE IF r_env.plot_file = ""
           THEN Goes("exit", <<Did("plot_data")>>, <<>>, {})
           ELSE IF "savefig" \in r_env.fails
           THEN Goes("exit", <<Did("plot_data"), Did("savefig")>>,
                     <<LogRec("error", "Error saving plot")>>, {})
           ELSE Goes("exit", <<Did("plot_data"), Did("savefig")>>,
                     <<LogRec("info", "Plot saved")>>, {r_env.plot_file})
    /\ UNCHANGED <<r_script, r_env, r_df, r_result>>

(* post_processing/time_averaging.py *)

\* rename_columns: the names of rename_map are replaced, the others kept
Rename(c) ==
    IF c \in {"V(nd)", "V(n10)"} THEN "V(nt)"
    ELSE IF c = "V(n0)" THEN "V(na)"
    ELSE IF c = "I(R_gnd)" THEN "I(Rgnd)"
    ELSE IF c = "I(R_rad)" THEN "I(Rrad)"
    ELSE c

rename_columns(cols) == {Rename(c) : c \in cols}

SweepRequired == {"V(nt)", "V(na)", "power", "I(Rgnd)"}

SweepColumns == {"time", "V(t)", "V(nd)", "V(n0)", "I(R_gnd)", "I(R_rad)"}

\* how the reads of load_data end: the first read, and the second one that
\* follows a NoDataError of the first
Reads == {<<"ok">>, <<"error">>, <<"NoDataError", "ok">>, <<"NoDataError", "error">>}

\* what else can fail in the time-averaging script
AveragingIO == {"resample", "save_data", "plot_dc_sweep", "plot_temperature_time"}

AveragingEnvs ==
    [cols : {SweepColumns \ m : m \in SUBSET {"time", "V(t)", "I(R_rad)"}}
                \cup {SweepColumns \ {"I(R_gnd)"}},
     reads : Reads,
     fails : {{}} \cup {{op} : op \in AveragingIO},
     skip_resample : BOOLEAN,
     output_file : {"", "averaged.txt"},
     plot_path : {"", "dc_sweep.pdf"},
     tt_plot_path : {"", "temperature.pdf"}]

\* main starts: logging is configured and the arguments are parsed
RunAveraging(env) ==
    /\ r_script = "none"
    /\ r_script' = "averaging"
    /\ r_env' = env
    /\ r_pc' = "load_data"
    /\ UNCHANGED <<r_df, r_result, r_log, r_files, r_holds, r_done, r_exc>>

\* df_initial = load_data(args.input_file, delimiter=args.delimiter) with
\* the default delimiter: a NoDataError of the tab-separated read is answered
\* by a space-separated read; any other exception is logged and raised again
RunAveragingLoad ==
    /\ r_script = "averaging" /\ r_pc = "load_data"
    /\ LET reads == [k \in 1..Len(r_env.reads) |-> Did("read_csv")]
           made == <<Did("load_data")>> \o reads
       IN  IF r_env.reads[Len(r_env.reads)] = "ok"
           THEN /\ Goes("process_data", made, <<LogRec("info", "Data loaded")>>, {})
                /\ r_df' = [cols |-> r_env.cols]
           ELSE /\ Dies("OSError", "load_data", {}, made,
                        <<LogRec("exception", "Failed to load data")>>)
                /\ r_df' = r_df
    /\ UNCHANGED <<r_script, r_env, r_result>>

\* df_renamed = rename_columns(df_initial); df_processed = process_data(...):
\* an absent 'I(Rrad)' or 'time' column is logged as a warning and skipped
RunAveragingProcess ==
    /\ r_script = "averaging" /\ r_pc = "process_data"
    /\ LET cols == rename_columns(r_df.cols)
           powered == IF "power" \notin cols /\ "I(Rrad)" \in cols
                      THEN cols \cup {"power"} ELSE cols
           power_log == IF "power" \notin cols /\ "I(Rrad)" \in cols
                        THEN LogRec("info", "Calculated 'power' from I(Rrad)")
                        ELSE IF "power" \in cols
                        THEN LogRec("info", "'power' column already exists")
                        ELSE LogNames("warning", "No 'I(Rrad)' column found; skipping power calculation",
                                      {"I(Rrad)"})
           made == <<Did("rename_columns"), Did("process_data")>>
       IN  IF r_env.skip_resample
           THEN /\ Goes("save_data", made,
                        <<power_log, LogRec("info", "Skipping time conversion and resampling")>>, {})
                /\ r_df' = [cols |-> powered]
           ELSE IF "time" \in cols
           THEN IF "resample" \in r_env.fails
                THEN /\ Dies("ComputeError", "process_data", {}, made,
                             <<power_log,
                               LogRec("exception", "Failed processing 'time' column for resampling")>>)
                     /\ r_df' = r_df
                ELSE /\ Goes("save_data", made,
                             <<power_log, LogRec("info", "Resampled data")>>, {})
                     /\ r_df' = [cols |-> powered]
           ELSE /\ Goes("save_data", made,
                        <<power_log,
                          LogNames("warning", "No 'time' column found; skipping time conversion and resampling",
                                   {"time"})>>, {})
                /\ r_df' = [cols |-> powered]
    /\ UNCHANGED <<r_script, r_env, r_result>>

\* the processed table is saved unless --skip_resample is set; without
\* --output_file the default path is built by with_suffix, which rejects a
\* suffix that does not start with a dot
RunAveragingSave ==
    /\ r_script = "averaging" /\ r_pc = "save_data"
    /\ IF r_env.skip_resample
       THEN Goes("plot_dc_sweep", <<>>, <<LogRec("info", "Skipping saving processed data")>>, {})
       ELSE IF r_env.output_file = ""
       THEN Dies("ValueError", "with_suffix", {}, <<>>, <<>>)
       ELSE IF "save_data" \in r_env.fails
       THEN Dies("OSError", "save_data", {}, <<Did("save_data")>>, <<>>)
       ELSE Goes("plot_dc_sweep", <<Did("save_data")>>,
                 <<LogRec("info", "Data saved")>>, {r_env.output_file})
    /\ UNCHANGED <<r_script, r_env, r_df, r_result>>

\* if args.plot_path: plot_dc_sweep(df_processed, ...)
RunAveragingPlotSweep ==
    /\ r_script = "averaging" /\ r_pc = "plot_dc_sweep"
    /\ IF r_env.plot_path = ""
       THEN Goes("plot_temperature_time", <<>>, <<>>, {})
       ELSE IF SweepRequired \ r_df.cols # {}
       THEN Dies("KeyError", "plot_dc_sweep", SweepRequired \ r_df.cols,
                 <<Did("plot_dc_sweep")>>, <<>>)
       ELSE IF "plot_dc_sweep" \in r_env.fails
       THEN Dies("OSError", "plot_dc_sweep", {}, <<Did("plot_dc_sweep")>>, <<>>)
       ELSE Goes("plot_temperature_time", <<Did("plot_dc_sweep")>>,
                 <<LogRec("info", "DC sweep plot saved")>>, {r_env.plot_path})
    /\ UNCHANGED <<r_script, r_env, r_df, r_result>>

\* faulty variant: the KeyError of plot_temperature_time is not caught
RunAveragingPlotTemperature_Uncaught ==
    /\ r_script = "averaging" /\ r_pc = "plot_temperature_time"
    /\ IF r_env.tt_plot_path = ""
       THEN Goes("exit", <<>>, <<>>, {})
       ELSE IF "time" \notin r_df.cols \/ "V(t)" \notin r_df.cols
       THEN Dies("KeyError", "plot_temperature_time",
                 IF "time" \notin r_df.cols THEN {"time"} ELSE {"V(t)"},
                 <<Did("plot_temperature_time")>>, <<>>)
       ELSE IF "plot_temperature_time" \in r_env.fails
       THEN Goes("exit", <<Did("plot_temperature_time")>>,
                 <<LogRec("error", "Failed to generate temperature-time plot")>>, {})
       ELSE Goes("exit", <<Did("plot_temperature_time")>>,
                 <<LogRec("info", "Temperature-time plot saved")>>, {r_env.tt_plot_path})
    /\ UNCHANGED <<r_script, r_env, r_df, r_result>>

\* if args.tt_plot_path: plot_temperature_time(...) inside try: a KeyError
\* is logged as a warning, any other exception as an error, and main returns
RunAveragingPlotTemperature ==
    /\ r_script = "averaging" /\ r_pc = "plot_temperature_time"
    /\ IF r_env.tt_plot_path = ""
       THEN Goes("exit", <<>>, <<>>, {})
       ELSE IF "time" \notin r_df.cols \/ "V(t)" \notin r_df.cols
       THEN Goes("exit", <<Did("plot_temperature_time")>>,
                 <<LogNames("warning", "Skipping temperature-time plot",
                            IF "time" \notin r_df.cols THEN {"time"} ELSE {"V(t)"})>>, {})
       ELSE IF "plot_temperature_time" \in r_env.fails
       THEN Goes("exit", <<Did("plot_temperature_time")>>,
                 <<LogRec("error", "Failed to generate temperature-time plot")>>, {})
       ELSE Goes("exit", <<Did("plot_temperature_time")>>,
                 <<LogRec("info", "Temperature-time plot saved")>>, {r_env.tt_plot_path})
    /\ UNCHANGED <<r_script, r_env, r_df, r_result>>

----------------------------------------------------------------------------
(* python_integration/utils.py: modify_stacks, and the legacy              *)
(* python-integration/edit_jpe_3stacks.py: modify_3stacks.  The netlist    *)
(* editor and the simulation runner are library objects: the editor keeps  *)
(* the components of the schematic by reference.  What the library does    *)
(* with an add of a reference that is present, and with a parameter update *)
(* of a reference that is absent, is not fixed by this repository: both    *)
(* outcomes are left open and chosen with the call.                        *)

VARIABLES
    n_pc,       \* where modify_stacks is: "idle", the statement that runs
                \* next, "returned" or "raised"
    n_args,     \* the arguments of the call and the behaviour of the library
    n_input,    \* the components of the input file
    n_net,      \* the components the editor holds
    n_sorted,   \* sorted_refs
    n_ops,      \* the editor and runner operations made so far, in order
    n_saved,    \* the files written by save_netlist: path -> components
    n_sim,      \* the simulation: "none", "running" or "done"
    n_ret,      \* the value returned
    n_exc,      \* the exception raised, or "none"
    l_out       \* the outcome of modify_3stacks on the same call

nvars == <<n_pc, n_args, n_input, n_net, n_sorted, n_ops, n_saved, n_sim, n_ret, n_exc, l_out>>

\* the reference f"X{i}", and a reference with another prefix
XRef(number) == [p |-> "X", n |-> number]

URef(number) == [p |-> "U", n |-> number]

\* int(r.lstrip("X")) raises ValueError unless digits follow the X's
Parses(r) == r.p = "X"

\* the decimal digits of a number
RECURSIVE Digits(_)
Digits(n) == IF n < 10 THEN <<n>> ELSE Append(Digits(n \div 10), n % 10)

\* string order on digit sequences
RECURSIVE LexLeq(_, _)
LexLeq(a, b) ==
    IF a = <<>> THEN TRUE
    ELSE IF b = <<>> THEN FALSE
    ELSE IF Head(a) # Head(b) THEN Head(a) < Head(b)
    ELSE LexLeq(Tail(a), Tail(b))

\* faulty variant: the references are sorted as strings
RECURSIVE SortedRefs_Lexicographic(_)
SortedRefs_Lexicographic(refs) ==
    IF refs = {} THEN <<>>
    ELSE LET first == CHOOSE r \in refs : \A q \in refs : LexLeq(Digits(r.n), Digits(q.n))
         IN  <<first>> \o SortedRefs_Lexicographic(refs \ {first})

\* sorted(all_refs, key=lambda r: int(r.lstrip("X")))
RECURSIVE SortedRefs(_)
SortedRefs(refs) ==
    IF refs = {} THEN <<>>
    ELSE LET first == CHOOSE r \in refs : \A q \in refs : r.n <= q.n
         IN  <<first>> \o SortedRefs(refs \ {first})

\* the references of the components with the symbol
Matching(net, symbol_name) == {r \in DOMAIN net : net[r].symbol = symbol_name}

\* a component: its symbol, its position.Y and its parameters
Component(symbol, Y, parameters) == [symbol |-> symbol, Y |-> Y, parameters |-> parameters]

\* editor operations on the components
remove_component(net, ref) == [r \in DOMAIN net \ {ref} |-> net[r]]

add_component(net, ref, comp) ==
    [r \in DOMAIN net \cup {ref} |-> IF r = ref THEN comp ELSE net[r]]

\* a dictionary of parameters is written as a record over the keys in use;
\* unset marks a key the dictionary lacks
unset == ""

Keys == {"L", "R"}

\* set_component_parameters(ref, **params): the named parameters are set,
\* the others kept
set_component_parameters(net, ref, params) ==
    [net EXCEPT ![ref].parameters =
        [k \in Keys |-> IF params[k] # unset THEN params[k] ELSE @[k]]]

\* an operation of the editor or of the runner with its arguments: a
\* reference, a dictionary of parameters, a file
NoRef == [p |-> "-", n |-> 0]

NoParams == [k \in Keys |-> unset]

Op(name, ref, params, file) == [op |-> name, ref |-> ref, params |-> params, file |-> file]

RefOp(name, ref) == Op(name, ref, NoParams, "-")

FileOp(name, file) == Op(name, NoRef, NoParams, file)

default_delta_y == 176

\* delta_y: lines 49-54
DeltaY(net, sorted_refs) ==
    IF Len(sorted_refs) >= 2
    THEN net[sorted_refs[2]].Y - net[sorted_refs[1]].Y
    ELSE default_delta_y

\* what the call returned: nothing yet, None, or the pair of file names
NoReturn == [kind |-> "-", raw |-> "-", log |-> "-"]

ReturnNone == [kind |-> "None", raw |-> "-", log |-> "-"]

ReturnFiles(raw, log) == [kind |-> "tuple", raw |-> raw, log |-> log]

\* the outcome of a whole call: the exception, the operations made, the
\* components the editor holds, the files written and the simulation
Outcome(exc, ops, net, saved, sim) ==
    [exc |-> exc, ops |-> ops, net |-> net, saved |-> saved, sim |-> sim]

NoOutcome == Outcome("-", <<>>, <<>>, <<>>, "-")

NetInit ==
    /\ n_pc = "idle"
    /\ n_args = <<>>
    /\ n_input = <<>>
    /\ n_net = <<>>
    /\ n_sorted = <<>>
    /\ n_ops = <<>>
    /\ n_saved = <<>>
    /\ n_sim = "none"
    /\ n_ret = NoReturn
    /\ n_exc = "none"
    /\ l_out = NoOutcome


\* for ref in sorted_refs[num_stacks:]: editor.remove_component(ref)
RECURSIVE RemoveEach(_, _, _)
RemoveEach(net, ops, refs) ==
    IF refs = <<>> THEN [net |-> net, ops |-> ops]
    ELSE RemoveEach(remove_component(net, Head(refs)),
                    Append(ops, RefOp("remove_component", Head(refs))), Tail(refs))

\* for i in range(existing_count + 1, num_stacks + 1): a deep copy of the
\* template gets the reference X{i} and its place and is added; an add of a
\* reference that is present replaces the component or raises
RECURSIVE AddClones(_, _, _, _, _, _, _)
AddClones(net, ops, ith, num_stacks, template, delta_y, on_duplicate) ==
    IF ith > num_stacks THEN [net |-> net, ops |-> ops, exc |-> "none"]
    ELSE LET new_comp == Component(template.symbol, template.Y + (ith - 1) * delta_y,
                                   template.parameters)
             added == Append(ops, RefOp("add_component", XRef(ith)))
         IN  IF XRef(ith) \in DOMAIN net /\ on_duplicate = "raise"
             THEN [net |-> net, ops |-> added, exc |-> "LibraryError"]
             ELSE AddClones(add_component(net, XRef(ith), new_comp), added, ith + 1,
                            num_stacks, template, delta_y, on_duplicate)

\* for idx, params in enumerate(params_list, start=1): stop when
\* idx > num_stacks, else set the parameters of X{idx}; an update of a
\* reference that is absent raises or does nothing
RECURSIVE SetEach(_, _, _, _, _, _)
SetEach(net, ops, idx, params_list, num_stacks, on_absent) ==
    IF idx > Len(params_list) \/ idx > num_stacks
    THEN [net |-> net, ops |-> ops, exc |-> "none"]
    ELSE LET set == Append(ops, Op("set_component_parameters", XRef(idx),
                                   params_list[idx], "-"))
         IN  IF XRef(idx) \notin DOMAIN net
             THEN (IF on_absent = "raise"
                   THEN [net |-> net, ops |-> set, exc |-> "LibraryError"]
                   ELSE SetEach(net, set, idx + 1, params_list, num_stacks, on_absent))
             ELSE SetEach(set_component_parameters(net, XRef(idx), params_list[idx]),
                          set, idx + 1, params_list, num_stacks, on_absent)

\* modify_stacks is called: editor = AscEditor(input_file)
CallModifyStacks(args, net) ==
    /\ n_pc = "idle"
    /\ n_pc' = "enumerate"
    /\ n_args' = args
    /\ n_input' = net
    /\ n_net' = net
    /\ n_ops' = <<FileOp("AscEditor", args.input_file)>>
    /\ UNCHANGED <<n_sorted, n_saved, n_sim, n_ret, n_exc, l_out>>

\* lines 40-46: the components with the symbol are picked and their
\* references sorted by the number after the X
NetEnumerate ==
    /\ n_pc = "enumerate"
    /\ LET all_refs == Matching(n_net, n_args.symbol_name)
       IN  IF \E r \in all_refs : ~Parses(r)
           THEN n_pc' = "raised" /\ n_exc' = "ValueError" /\ n_sorted' = n_sorted
           ELSE n_pc' = "remove" /\ n_exc' = n_exc /\ n_sorted' = SortedRefs(all_refs)
    /\ n_ops' = Append(n_ops, FileOp("get_components", "-"))
    /\ UNCHANGED <<n_args, n_input, n_net, n_saved, n_sim, n_ret, l_out>>

\* faulty variant: no component is removed
NetRemove_KeepsAll ==
    /\ n_pc = "remove"
    /\ n_pc' = "add"
    /\ UNCHANGED <<n_args, n_input, n_net, n_sorted, n_ops, n_saved, n_sim, n_ret, n_exc, l_out>>

\* lines 56-59: the extra components are removed
NetRemove ==
    /\ n_pc = "remove"
    /\ LET existing_count == Len(n_sorted)
           res == IF n_args.num_stacks < existing_count
                  THEN RemoveEach(n_net, n_ops,
                                  SubSeq(n_sorted, n_args.num_stacks + 1, existing_count))
                  ELSE [net |-> n_net, ops |-> n_ops]
       IN  n_net' = res.net /\ n_ops' = res.ops
    /\ n_pc' = "add"
    /\ UNCHANGED <<n_args, n_input, n_sorted, n_saved, n_sim, n_ret, n_exc, l_out>>

\* faulty variant: without a template the netlist is passed on as it is
NetAdd_NoTemplateCheck ==
    /\ n_pc = "add"
    /\ LET existing_count == Len(n_sorted)
           res == IF n_args.num_stacks > existing_count /\ existing_count # 0
                  THEN AddClones(n_net, n_ops, existing_count + 1, n_args.num_stacks,
                                 n_net[n_sorted[1]], DeltaY(n_input, n_sorted),
                                 n_args.on_duplicate)
                  ELSE [net |-> n_net, ops |-> n_ops, exc |-> "none"]
       IN  /\ n_net' = res.net
           /\ n_ops' = res.ops
           /\ n_exc' = res.exc
           /\ n_pc' = IF res.exc = "none" THEN "parameters" ELSE "raised"
    /\ UNCHANGED <<n_args, n_input, n_sorted, n_saved, n_sim, n_ret, l_out>>

\* lines 61-70: the missing components are added as clones of the first one
NetAdd ==
    /\ n_pc = "add"
    /\ LET existing_count == Len(n_sorted)
           res == IF n_args.num_stacks > existing_count
                  THEN (IF existing_count = 0
                        THEN [net |-> n_net, ops |-> n_ops, exc |-> "RuntimeError"]
                        ELSE AddClones(n_net, n_ops, existing_count + 1, n_args.num_stacks,
                                       n_net[n_sorted[1]], DeltaY(n_input, n_sorted),
                                       n_args.on_duplicate))
                  ELSE [net |-> n_net, ops |-> n_ops, exc |-> "none"]
       IN  /\ n_net' = res.net
           /\ n_ops' = res.ops
           /\ n_exc' = res.exc
           /\ n_pc' = IF res.exc = "none" THEN "parameters" ELSE "raised"
    /\ UNCHANGED <<n_args, n_input, n_sorted, n_saved, n_sim, n_ret, l_out>>

\* faulty variant: every dictionary of params_list is used
NetSetParameters_NoBreak ==
    /\ n_pc = "parameters"
    /\ LET res == SetEach(n_net, n_ops, 1, n_args.params_list, Len(n_args.params_list),
                          n_args.on_absent)
       IN  /\ n_net' = res.net
           /\ n_ops' = res.ops
           /\ n_exc' = res.exc
           /\ n_pc' = IF res.exc = "none" THEN "save" ELSE "raised"
    /\ UNCHANGED <<n_args, n_input, n_sorted, n_saved, n_sim, n_ret, l_out>>

\* lines 72-77: the parameters are updated
NetSetParameters ==
    /\ n_pc = "parameters"
    /\ LET res == SetEach(n_net, n_ops, 1, n_args.params_list, n_args.num_stacks,
                          n_args.on_absent)
       IN  /\ n_net' = res.net
           /\ n_ops' = res.ops
           /\ n_exc' = res.exc
           /\ n_pc' = IF res.exc = "none" THEN "save" ELSE "raised"
    /\ UNCHANGED <<n_args, n_input, n_sorted, n_saved, n_sim, n_ret, l_out>>

\* lines 79-81: editor.save_netlist(output_file)
NetSave ==
    /\ n_pc = "save"
    /\ n_saved' = [f \in DOMAIN n_saved \cup {n_args.output_file} |->
                      IF f = n_args.output_file THEN n_net ELSE n_saved[f]]
    /\ n_ops' = Append(n_ops, FileOp("save_netlist", n_args.output_file))
    /\ n_pc' = "simulate"
    /\ UNCHANGED <<n_args, n_input, n_net, n_sorted, n_sim, n_ret, n_exc, l_out>>

\* faulty variant: the simulation is started whatever simulate says
NetSimulate_Always ==
    /\ n_pc = "simulate"
    /\ n_ops' = n_ops \o <<FileOp("SimRunner", "-"), FileOp("run", n_args.output_file)>>
    /\ n_sim' = "running"
    /\ n_pc' = "wait"
    /\ UNCHANGED <<n_ret, n_exc>>
    /\ UNCHANGED <<n_args, n_input, n_net, n_sorted, n_saved, l_out>>

\* lines 83-103 and 105: without simulate the function returns None; with
\* run_switches the blocking run_now is called and its two files are checked;
\* otherwise the run is started
NetSimulate ==
    /\ n_pc = "simulate"
    /\ IF ~n_args.simulate
       THEN /\ n_pc' = "returned"
            /\ n_ret' = ReturnNone
            /\ UNCHANGED <<n_ops, n_sim, n_exc>>
       ELSE IF n_args.run_switches # <<>>
       THEN /\ n_ops' = n_ops \o <<FileOp("SimRunner", "-"),
                                   FileOp("run_now", n_args.output_file)>>
            /\ n_sim' = IF n_args.produced THEN "done" ELSE "failed"
            /\ IF n_args.produced
               THEN n_pc' = "returned" /\ n_ret' = ReturnFiles("raw", "log") /\ n_exc' = n_exc
               ELSE n_pc' = "raised" /\ n_ret' = n_ret /\ n_exc' = "RuntimeError"
       ELSE /\ n_ops' = n_ops \o <<FileOp("SimRunner", "-"), FileOp("run", n_args.output_file)>>
            /\ n_sim' = "running"
            /\ n_pc' = "wait"
            /\ UNCHANGED <<n_ret, n_exc>>
    /\ UNCHANGED <<n_args, n_input, n_net, n_sorted, n_saved, l_out>>

\* faulty variant: the function returns while the simulation runs
NetWait_NoWait ==
    /\ n_pc = "wait"
    /\ n_pc' = "returned"
    /\ n_ret' = ReturnNone
    /\ UNCHANGED <<n_args, n_input, n_net, n_sorted, n_ops, n_saved, n_sim, n_exc, l_out>>

\* lines 104-105: runner.wait_completion() returns when the simulation has
\* ended, and the function returns None
NetWait ==
    /\ n_pc = "wait"
    /\ n_ops' = Append(n_ops, FileOp("wait_completion", "-"))
    /\ n_sim' = "done"
    /\ n_pc' = "returned"
    /\ n_ret' = ReturnNone
    /\ UNCHANGED <<n_args, n_input, n_net, n_sorted, n_saved, n_exc, l_out>>

\* python-integration/edit_jpe_3stacks.py, modify_3stacks: the symbol is
\* "1stack", the run is started without switches and waited for
modify_3stacks(net, args) ==
    LET symbol_name == "1stack"
        all_refs == Matching(net, symbol_name)
        ops0 == <<FileOp("AscEditor", args.input_file), FileOp("get_components", "-")>>
    IN  IF \E r \in all_refs : ~Parses(r)
        THEN Outcome("ValueError", ops0, net, <<>>, "none")
        ELSE
        LET sorted_refs == SortedRefs(all_refs)
            existing_count == Len(sorted_refs)
            delta_y == IF existing_count >= 2
                       THEN net[sorted_refs[2]].Y - net[sorted_refs[1]].Y
                       ELSE default_delta_y
            removed == IF args.num_stacks < existing_count
                       THEN RemoveEach(net, ops0,
                                       SubSeq(sorted_refs, args.num_stacks + 1, existing_count))
                       ELSE [net |-> net, ops |-> ops0]
            added == IF args.num_stacks > existing_count
                     THEN (IF existing_count = 0
                           THEN [net |-> removed.net, ops |-> removed.ops,
                                 exc |-> "RuntimeError"]
                           ELSE AddClones(removed.net, removed.ops, existing_count + 1,
                                          args.num_stacks, removed.net[sorted_refs[1]],
                                          delta_y, args.on_duplicate))
                     ELSE [net |-> removed.net, ops |-> removed.ops, exc |-> "none"]
        IN  IF added.exc # "none"
            THEN Outcome(added.exc, added.ops, added.net, <<>>, "none")
            ELSE
            LET set == SetEach(added.net, added.ops, 1, args.params_list, args.num_stacks,
                               args.on_absent)
                saved == [f \in {args.output_file} |-> set.net]
                save == Append(set.ops, FileOp("save_netlist", args.output_file))
            IN  IF set.exc # "none"
                THEN Outcome(set.exc, set.ops, set.net, <<>>, "none")
                ELSE IF args.simulate
                THEN Outcome("none",
                             save \o <<FileOp("SimRunner", "-"),
                                       FileOp("run", args.output_file),
                                       FileOp("wait_completion", "-")>>,
                             set.net, saved, "done")
                ELSE Outcome("none", save, set.net, saved, "none")

\* the legacy function is called with the arguments and the input file of
\* the finished call of modify_stacks
CallModify3Stacks ==
    /\ n_pc \in {"returned", "raised"}
    /\ l_out.exc = "-"
    /\ l_out' = modify_3stacks(n_input, n_args)
    /\ UNCHANGED <<n_pc, n_args, n_input, n_net, n_sorted, n_ops, n_saved, n_sim, n_ret, n_exc>>

\* the inputs: the numbers of the components with the symbol, what else the
\* schematic holds, and the arguments
MaxStacks == 4

MaxParams == 2

StackNumbers == {{}, {1}, {1, 2}, {1, 2, 3}, {1, 3}, {2, 10}, {1, 2, 10}}

Others == {"none", "X4", "X2", "U1"}

Rank(numbers, n) == Cardinality({m \in numbers : m < n})

\* every component has parameters of its own to begin with
OwnParameters(n) ==
    [k \in Keys |-> IF k = "L" THEN "1n"
                    ELSE CASE n = 1 -> "10" [] n = 2 -> "20" [] n = 3 -> "30" [] OTHER -> "40"]

Netlist(symbol, numbers, other) ==
    LET stacks == [r \in {XRef(n) : n \in numbers} |->
                      Component(symbol, Rank(numbers, r.n) * 200, OwnParameters(r.n))]
    IN  CASE other = "none" -> stacks
          [] other = "X4" -> add_component(stacks, XRef(4), Component("res", 50, OwnParameters(0)))
          [] other = "X2" -> add_component(stacks, XRef(2), Component("res", 50, OwnParameters(0)))
          [] other = "U1" -> add_component(stacks, URef(1), Component(symbol, 50, OwnParameters(0)))

Netlists ==
    {Netlist("1stack", numbers, other) : numbers \in StackNumbers, other \in {"none", "X4", "U1"}}
    \cup {Netlist("1stack", numbers, "X2") : numbers \in {{}, {1}, {1, 3}}}

Dicts == {[L |-> "5n", R |-> unset], [L |-> unset, R |-> "7"]}

ParamLists == UNION {[1..n -> Dicts] : n \in 0..MaxParams}

Symbols == {"1stack", "1stack_RC"}

Arguments ==
    [input_file : {"in.asc"}, output_file : {"out.asc"}, symbol_name : Symbols,
     num_stacks : 0..MaxStacks, params_list : ParamLists,
     simulate : BOOLEAN, run_switches : {<<>>, <<"-ascii", "-log">>},
     produced : BOOLEAN, on_duplicate : {"replace", "raise"},
     on_absent : {"raise", "ignore"}]

\* one choice stands for the arguments no statement reads
Calls ==
    {a \in Arguments :
        /\ (~a.simulate => a.run_switches = <<>>)
        /\ (a.run_switches = <<>> => a.produced)
        /\ (a.symbol_name = "1stack_RC" =>
                a.on_duplicate = "replace" /\ a.on_absent = "raise" /\ ~a.simulate)}

----------------------------------------------------------------------------
(* Specifications *)

vars == <<svars, tvars, fvars, pvars, dvars, rvars, nvars>>

SolverOff ==
    /\ pc = "off"
    /\ par = <<>>
    /\ I_ints = <<>>
    /\ V_int = <<>>
    /\ i = 0
    /\ trace = <<>>
    /\ prevI = <<>>
    /\ prevV = <<>>
    /\ calls = "none"

\* the array-level solve: I_int2V_int called twice with one parameter set
Init == SolverInit /\ TOff /\ FitInit /\ ParInit /\ TabInit /\ RunInit /\ NetInit

Next ==
    \/ /\ calls = "none"
       /\ \E arr \in Arrays(Currents, MaxLen) : Call(arr) /\ UNCHANGED <<tvars, fvars, pvars, dvars, rvars, nvars>>
    \/ /\ calls = "one" /\ pc = "idle"
       /\ \E arr \in Reorderings(I_ints) : CallAgain(arr) /\ UNCHANGED <<tvars, fvars, pvars, dvars, rvars, nvars>>
    \/ LoopStep /\ UNCHANGED <<tvars, fvars, pvars, dvars, rvars, nvars>>
    \/ Return /\ UNCHANGED <<tvars, fvars, pvars, dvars, rvars, nvars>>

Spec == Init /\ [][Next]_vars

\* the temperature residual evaluated on arguments drawn from small sets
InitT == SolverOff /\ TOff /\ FitInit /\ ParInit /\ TabInit /\ RunInit /\ NetInit

NextT ==
    /\ t_args = <<>>
    /\ \E T \in Temperatures, P \in Powers, alpha \in Alphas, beta \in Betas,
          gamma \in Gammas, T_bath \in Baths :
           CallSolve4T(T, P, alpha, beta, gamma, T_bath) /\ UNCHANGED <<svars, fvars, pvars, dvars, rvars, nvars>>

SpecT == InitT /\ [][NextT]_vars

\* the two fits, each on any table of at most MaxRows rows
InitFit == SolverOff /\ TOff /\ FitInit /\ ParInit /\ TabInit /\ RunInit /\ NetInit

NextFit ==
    \/ /\ f_pc = "idle"
       /\ \E rows \in Arrays(ThermalValues, MaxRows) : ThermalFit(rows) /\ UNCHANGED <<svars, tvars, pvars, dvars, rvars, nvars>>
    \/ \E resid \in Residuals : FitEvaluate(resid) /\ UNCHANGED <<svars, tvars, pvars, dvars, rvars, nvars>>
    \/ FitConverge /\ UNCHANGED <<svars, tvars, pvars, dvars, rvars, nvars>>
    \/ FitCap /\ UNCHANGED <<svars, tvars, pvars, dvars, rvars, nvars>>
    \/ /\ f_pc = "idle"
       /\ \E rows \in Arrays(AntennaValues, MaxRows) : AntennaFit(rows) /\ UNCHANGED <<svars, tvars, pvars, dvars, rvars, nvars>>

SpecFit == InitFit /\ [][NextFit]_vars

\* one call of a helper: parallel_sum on at most MaxBranches impedances or
\* series_sum on at most MaxTerms
InitPar == SolverOff /\ TOff /\ FitInit /\ ParInit /\ TabInit /\ RunInit /\ NetInit

NextPar ==
    \/ /\ p_pc = "idle" /\ s_pc = "idle"
       /\ \E zs \in Arrays(Impedances, MaxBranches) :
              CallParallelSum(zs) /\ UNCHANGED <<svars, tvars, fvars, dvars, rvars, nvars>>
    \/ /\ p_pc = "idle" /\ s_pc = "idle"
       /\ \E zs \in Arrays(SeriesArgs, MaxTerms) :
              CallSeriesSum(zs) /\ UNCHANGED <<svars, tvars, fvars, dvars, rvars, nvars>>

SpecPar == InitPar /\ [][NextPar]_vars

\* one table through process_data, then save_processed_data and load_data
InitTab == SolverOff /\ TOff /\ FitInit /\ ParInit /\ TabInit /\ RunInit /\ NetInit

NextTab ==
    \/ /\ d_pc = "idle"
       /\ \E df \in Tables : ProcessData(df) /\ UNCHANGED <<svars, tvars, fvars, pvars, rvars, nvars>>
    \/ \E fails \in BOOLEAN : SaveProcessed(fails) /\ UNCHANGED <<svars, tvars, fvars, pvars, rvars, nvars>>
    \/ \E fails \in BOOLEAN : LoadSaved(fails) /\ UNCHANGED <<svars, tvars, fvars, pvars, rvars, nvars>>

SpecTab == InitTab /\ [][NextTab]_vars

\* one run of one of the four scripts in any environment
InitRun == SolverOff /\ TOff /\ FitInit /\ ParInit /\ TabInit /\ RunInit /\ NetInit

rest == <<svars, tvars, fvars, pvars, dvars, nvars>>

NextRun ==
    \/ /\ r_script = "none"
       /\ \E env \in ThermalEnvs : RunThermal(env) /\ UNCHANGED rest
    \/ RunThermalLoad /\ UNCHANGED rest
    \/ RunThermalProcess /\ UNCHANGED rest
    \/ RunThermalSave /\ UNCHANGED rest
    \/ RunThermalFit /\ UNCHANGED rest
    \/ RunThermalPlotRth /\ UNCHANGED rest
    \/ RunThermalPlotVI /\ UNCHANGED rest
    \/ RunThermalPlotIT /\ UNCHANGED rest
    \/ RunThermalPlotIRth /\ UNCHANGED rest
    \/ /\ r_script = "none"
       /\ \E env \in AntennaEnvs : RunAntenna(env) /\ UNCHANGED rest
    \/ RunAntennaLoad /\ UNCHANGED rest
    \/ RunAntennaColumns /\ UNCHANGED rest
    \/ RunAntennaFit /\ UNCHANGED rest
    \/ RunAntennaPlotFit /\ UNCHANGED rest
    \/ RunAntennaPlotMacro /\ UNCHANGED rest
    \/ RunAntennaLoadTxt /\ UNCHANGED rest
    \/ RunAntennaPlotTxt /\ UNCHANGED rest
    \/ RunAntennaPlotComplex /\ UNCHANGED rest
    \/ /\ r_script = "none"
       /\ \E env \in PhaseEnvs : RunPhase(env) /\ UNCHANGED rest
    \/ RunPhaseLoad /\ UNCHANGED rest
    \/ RunPhaseProcess /\ UNCHANGED rest
    \/ RunPhaseSave /\ UNCHANGED rest
    \/ RunPhasePlot /\ UNCHANGED rest
    \/ /\ r_script = "none"
       /\ \E env \in AveragingEnvs : RunAveraging(env) /\ UNCHANGED rest
    \/ RunAveragingLoad /\ UNCHANGED rest
    \/ RunAveragingProcess /\ UNCHANGED rest
    \/ RunAveragingSave /\ UNCHANGED rest
    \/ RunAveragingPlotSweep /\ UNCHANGED rest
    \/ RunAveragingPlotTemperature /\ UNCHANGED rest

SpecRun == InitRun /\ [][NextRun]_vars

\* the two process_data functions on the table objects
InitCopy == SolverOff /\ TOff /\ FitInit /\ ParInit /\ TabInit /\ RunInit /\ NetInit

NextCopy ==
    \/ /\ d_pc = "idle"
       /\ \E df \in Tables : ProcessData(df) /\ UNCHANGED <<svars, tvars, fvars, pvars, rvars, nvars>>
    \/ /\ d_pc = "idle"
       /\ \E cols \in SUBSET Names(PhaseRequired), fails \in SUBSET {"to_datetime"} :
              ProcessPhaseData(cols, fails) /\ UNCHANGED <<svars, tvars, fvars, pvars, rvars, nvars>>

SpecCopy == InitCopy /\ [][NextCopy]_vars

\* modify_stacks, and modify_3stacks on the same call
InitNet == SolverOff /\ TOff /\ FitInit /\ ParInit /\ TabInit /\ RunInit /\ NetInit

others == <<svars, tvars, fvars, pvars, dvars, rvars>>

NextNet ==
    \/ /\ n_pc = "idle"
       /\ \E args \in Calls, net \in Netlists : CallModifyStacks(args, net) /\ UNCHANGED others
    \/ NetEnumerate /\ UNCHANGED others
    \/ NetRemove /\ UNCHANGED others
    \/ NetAdd /\ UNCHANGED others
    \/ NetSetParameters /\ UNCHANGED others
    \/ NetSave /\ UNCHANGED others
    \/ NetSimulate /\ UNCHANGED others
    \/ NetWait /\ UNCHANGED others
    \/ CallModify3Stacks /\ UNCHANGED others

SpecNet == InitNet /\ [][NextNet]_vars


----------------------------------------------------------------------------
(* Properties of the solver *)

Returned == pc = "idle" /\ calls # "none"
Processed == 1..i

\* C1: the output of I_int2V_int has the length of its input; the entry of
\* every processed point is the outer solve's x when that solve succeeded and
\* NaN exactly when it failed; and the call returns only after the loop has
\* processed every point, whatever failed on the way.
C1_OutputPerPoint ==
    /\ Len(V_int) = Len(I_ints)
    /\ Len(trace) = i
    /\ \A k \in Processed :
          /\ trace[k].success => V_int[k] = trace[k].x
          /\ isnan(V_int[k]) <=> ~trace[k].success
    /\ \A k \in (i + 1)..Len(I_ints) : V_int[k] = empty
    /\ Returned => i = Len(I_ints)

\* a call has returned an array in which a failed point is followed by a
\* solved one
C1_Witness ==
    /\ Returned
    /\ \E k, l \in Processed :
          k < l /\ isnan(V_int[k]) /\ ~trace[k].success
                /\ trace[l].success /\ isfinite(V_int[l])

\* C2: where the inner temperature solve did not converge, solve4V_int still
\* returned V - T2R_int(T_val)*I computed from the inner solver's last iterate
\* T_val, and the point's output is NaN only if the outer solve failed: an
\* outer solve that succeeded stores its x although the inner solve failed.
C2_InnerFailureOnlyWarns ==
    \A k \in Processed :
        ~trace[k].innerOk =>
            /\ trace[k].resid =
                   FSub(trace[k].x,
                        FMul(T2R_int(trace[k].T_val, par.A, par.B, par.C, par.D),
                             I_ints[k]))
            /\ trace[k].success => (V_int[k] = trace[k].x /\ ~isnan(V_int[k]))
            /\ isnan(V_int[k]) => ~trace[k].success

\* a point whose inner solve failed at the returned voltage and whose output
\* is that voltage, not NaN
C2_Witness ==
    \E k \in Processed :
        ~trace[k].innerOk /\ trace[k].success /\ isfinite(V_int[k])
        /\ I_ints[k] # Fin(0)

\* the inner solver's temperature and T2R_int there, for trial voltage V at
\* zero current
T_at(V) == InnerSol(Fin(V), Fin(0), par).x
R_int_at(V) == T2R_int(T_at(V), par.A, par.B, par.C, par.D)
TrialVoltages == (SeedV - Reach)..(SeedV + Reach)

\* C3 as claimed: for every parameter set, once a point with I = 0 has been
\* processed, the residual solve4V_int(V, 0, ...) equals V at every trial
\* voltage and the output at that index is 0.
C3_AsClaimed ==
    \A k \in Processed :
        I_ints[k] = Fin(0) =>
            /\ \A V \in TrialVoltages : solve4V_int(Fin(V), Fin(0), par) = Fin(V)
            /\ V_int[k] = Fin(0)

\* C3, amended: for a point with I = 0 the residual equals V at every trial
\* voltage at which T2R_int of the inner solver's temperature is finite, and
\* is NaN where it is not (R_int*0 is then NaN); when it is finite at every
\* trial voltage the outer solve succeeds and the output at that index is 0,
\* whatever the other elements of the array are.
C3_ZeroCurrent ==
    \A k \in Processed :
        I_ints[k] = Fin(0) =>
            /\ \A V \in TrialVoltages :
                  IF isfinite(R_int_at(V))
                  THEN solve4V_int(Fin(V), Fin(0), par) = Fin(V)
                  ELSE isnan(solve4V_int(Fin(V), Fin(0), par))
            /\ (\A V \in TrialVoltages : isfinite(R_int_at(V))) =>
                  (trace[k].success /\ V_int[k] = Fin(0))

\* a returned array with a zero-current point solved to 0 next to a point
\* that failed
C3_Witness ==
    /\ Returned
    /\ \A V \in TrialVoltages : isfinite(R_int_at(V))
    /\ \E k, l \in Processed :
          I_ints[k] = Fin(0) /\ V_int[k] = Fin(0) /\ isnan(V_int[l])

\* C5: a point's output depends only on its current and the parameters: equal
\* currents have equal outputs wherever they stand in the array and in
\* whichever of two calls, so a reordered input gives the output reordered
\* the same way.
C5_PointwiseIndependent ==
    /\ \A k, l \in Processed : I_ints[k] = I_ints[l] => V_int[k] = V_int[l]
    /\ calls = "two" =>
          \A k \in Processed : \A l \in 1..Len(prevI) :
              I_ints[k] = prevI[l] => V_int[k] = prevV[l]

\* the second call has returned the samples of the first in another order,
\* with two different outputs
C5_Witness ==
    /\ Returned
    /\ calls = "two"
    /\ I_ints # prevI
    /\ \E k, l \in Processed : V_int[k] # V_int[l] /\ isfinite(V_int[k])

----------------------------------------------------------------------------
(* Properties of solve4T *)

Called4T == t_args # <<>>
ExpFinite == isfinite(exp(FMul(FNeg(t_args.beta), t_args.T)))
ClosedFormT == FAdd(FMul(t_args.gamma, t_args.P), t_args.T_bath)

\* C4 as claimed: with alpha = 0 the residual of solve4T is 0 at and only at
\* T = gamma*P + T_bath, for every T.
C4_AsClaimed ==
    (Called4T /\ t_args.alpha = Fin(0)) =>
        (IsZero(t_res) <=> t_args.T = ClosedFormT)

\* C4, amended: solve4T returns T - (T2R_th(T)*P + T_bath), which is 0 exactly
\* when T equals that self-consistent value; with alpha = 0 and exp(-beta*T)
\* finite, T2R_th(T) is gamma and the residual is 0 at and only at
\* T = gamma*P + T_bath; with alpha = 0 and exp(-beta*T) overflowed, 0*inf
\* makes T2R_th(T) and the residual NaN.
C4_Residual ==
    Called4T =>
        LET a    == t_args
            R_th == T2R_th(a.T, a.alpha, a.beta, a.gamma)
            T_sc == FAdd(FMul(R_th, a.P), a.T_bath)
        IN  /\ IsZero(t_res) <=> (isfinite(T_sc) /\ a.T = T_sc)
            /\ isfinite(T_sc) => t_res = FSub(a.T, T_sc)
            /\ (a.alpha = Fin(0) /\ ExpFinite) =>
                  /\ R_th = a.gamma
                  /\ IsZero(t_res) <=> a.T = ClosedFormT
            /\ (a.alpha = Fin(0) /\ ~ExpFinite) => (isnan(R_th) /\ isnan(t_res))

\* solve4T was called with alpha = 0 at the closed-form temperature, with a
\* bath temperature other than 0, and returned 0
C4_Witness ==
    /\ Called4T
    /\ t_args.alpha = Fin(0)
    /\ t_args.T = ClosedFormT
    /\ t_args.T_bath # Fin(0)
    /\ t_args.P # Fin(0)
    /\ IsZero(t_res)

----------------------------------------------------------------------------
(* Properties of the fitters *)

NoNaN(arr) == \A k \in 1..Len(arr) : ~isnan(arr[k])
Increasing(m) == \A a, b \in DOMAIN m : a < b => m[a] < m[b]

\* C6: the thermal perform_fitting hands the optimizer exactly the samples in
\* which neither the current nor the voltage is NaN, in their original order,
\* each current with its own voltage (and the voltage squared as weight).
C6_ThermalMask ==
    f_kind = "thermal" =>
        LET I_int == Col(f_in, "I")
            V     == Col(f_in, "V")
            keep  == {k \in 1..Len(f_in) : ~isnan(I_int[k]) /\ ~isnan(V[k])}
            I_opt == opt.indep[1]
            n     == Cardinality(keep)
        IN  /\ Len(opt.data) = n /\ Len(I_opt) = n /\ Len(opt.weights) = n
            /\ NoNaN(opt.data) /\ NoNaN(I_opt)
            /\ \E m \in [1..n -> keep] :
                  /\ Increasing(m)
                  /\ \A j \in 1..n :
                        /\ I_opt[j] = I_int[m[j]]
                        /\ opt.data[j] = V[m[j]]
                        /\ opt.weights[j] = FMul(V[m[j]], V[m[j]])

\* the thermal fit was handed two samples of a table whose middle row has an
\* undefined current
C6_Witness ==
    /\ f_kind = "thermal"
    /\ Len(f_in) = 3
    /\ isnan(f_in[2].I) /\ ~isnan(f_in[2].V)
    /\ Len(opt.data) = 2
    /\ opt.indep[1][1] # opt.indep[1][2]

\* C7 as claimed: the antenna fit hands the optimizer no sample in which the
\* scaled bolometer output, V or R_int is NaN.
C7_AsClaimed ==
    f_kind = "antenna" =>
        /\ NoNaN(opt.data)
        /\ NoNaN(opt.indep[1])
        /\ NoNaN(opt.indep[2])

----------------------------------------------------------------------------
(* Properties of parallel_sum *)

ZeroBranchAt(pos) == \E k \in 1..Len(p_args) : IsZero(At(p_args[k], pos))
PyZeroBranch == \E k \in 1..Len(p_args) : p_args[k].py /\ IsZero(p_args[k].z)
Called == p_pc # "idle"

\* |x| is infinite or at least 1/epsilon
EffectivelyInfinite(x) == x.k = "inf" \/ (x.k = "fin" /\ AbsLeq(FDiv(Fin(1), epsilon), x))

\* C9 as claimed: when one of the impedances is 0 the call raises no division
\* error and its result is effectively infinite there.
C9_AsClaimed ==
    \A pos \in Positions :
        (Called /\ ZeroBranchAt(pos)) =>
            (p_pc = "returned" /\ EffectivelyInfinite(p_out.Z_tot[pos]))

\* What the code does on a zero branch (C9): with real impedances none of
\* which is NaN, -0.0 or -inf, a call in which one impedance is 0 raises
\* ZeroDivisionError in line 51 when a 0 is passed as a Python scalar;
\* otherwise (every 0 is a NumPy value) it returns, and where a branch is 0
\* the total admittance is +inf and the result is 0, not infinity.
C9_ZeroBranch ==
    (Called /\ \E pos \in Positions : ZeroBranchAt(pos)) =>
        IF PyZeroBranch
        THEN p_pc = "raised"
        ELSE /\ p_pc = "returned"
             /\ \A pos \in Positions :
                   ZeroBranchAt(pos) =>
                       (p_out.total[pos] = inf /\ p_out.Z_tot[pos] = Fin(0))

\* parallel_sum returned for an array that is 0 at position 1 only, beside a
\* Python scalar 2: 0 at position 1, a finite non-zero value at position 2
C9_Witness ==
    /\ p_pc = "returned"
    /\ Len(p_args) = 2
    /\ ~p_args[1].py /\ p_args[1].z[1] = Fin(0) /\ p_args[1].z[2] = Fin(2)
    /\ p_args[2].py /\ p_args[2].z = Fin(2)
    /\ p_out.Z_tot[1] = Fin(0)
    /\ p_out.Z_tot[2] = Fin(1)

\* C10: when parallel_sum returns, at every position where the total
\* admittance is exactly 0 the result is +inf, the reciprocal was taken of a
\* non-zero number (epsilon) and no branch is 0 there; at every other position
\* the result is the reciprocal (in doubles) of the total admittance, which
\* for two branches z1, z2 is 1/z1 + 1/z2.
C10_GuardedReciprocal ==
    p_pc = "returned" =>
        \A pos \in Positions :
            /\ ~IsZero(p_out.safe[pos])
            /\ IF IsZero(p_out.total[pos])
               THEN /\ p_out.Z_tot[pos] = inf
                    /\ p_out.safe[pos] = epsilon
                    /\ ~ZeroBranchAt(pos)
               ELSE /\ p_out.Z_tot[pos] = RDiv(Fin(1), p_out.total[pos])
                    /\ p_out.safe[pos] = p_out.total[pos]
            /\ Len(p_args) = 2 =>
                  p_out.total[pos] = RAdd(RDiv(Fin(1), At(p_args[1], pos)),
                                          RDiv(Fin(1), At(p_args[2], pos)))

\* parallel_sum returned for the arrays (1, 2) and (-1, 2): the admittances
\* cancel at position 1, where the result is +inf, and give 1 at position 2
C10_Witness ==
    /\ p_pc = "returned"
    /\ Len(p_args) = 2
    /\ ~p_args[1].py /\ p_args[1].z[1] = Fin(1) /\ p_args[1].z[2] = Fin(2)
    /\ ~p_args[2].py /\ p_args[2].z[1] = Fin(-1) /\ p_args[2].z[2] = Fin(2)
    /\ IsZero(p_out.total[1])
    /\ p_out.Z_tot[1] = inf
    /\ p_out.Z_tot[2] = Fin(1)


----------------------------------------------------------------------------
(* Properties of parallel_sum on two equal impedances, and of series_sum *)

TwoEqual ==
    /\ p_pc = "returned"
    /\ Len(p_args) = 2
    /\ p_args[1].py = p_args[2].py
    /\ \A pos \in Positions : At(p_args[1], pos) = At(p_args[2], pos)

Half(z) == FDiv(z, Fin(2))

SeriesCalled == s_pc = "returned" /\ Len(s_args) >= 1

RECURSIVE ExactSumAt(_, _)
ExactSumAt(zs, pos) ==
    IF zs = <<>> THEN Fin(0)
    ELSE FAdd(ExactSumAt(SubSeq(zs, 1, Len(zs) - 1), pos), At(zs[Len(zs)], pos))

RECURSIVE AbsSumAt(_, _)
AbsSumAt(zs, pos) ==
    IF zs = <<>> THEN 0
    ELSE AbsSumAt(SubSeq(zs, 1, Len(zs) - 1), pos) + Abs(At(zs[Len(zs)], pos).n)

\* what nested calls of series_sum on the impedances with indices in I can
\* return at a position, over every order and every grouping: a call on two
\* arguments is one addition and a call on more is additions from the left
RECURSIVE Groupings(_, _, _)
Groupings(zs, I, pos) ==
    IF Cardinality(I) = 1 THEN {At(zs[k], pos) : k \in I}
    ELSE UNION {{RAdd(x, y) : x \in Groupings(zs, J, pos),
                              y \in Groupings(zs, I \ J, pos)} :
                   J \in (SUBSET I) \ {{}, I}}

AllFiniteAt(zs, pos) == \A k \in 1..Len(zs) : isfinite(At(zs[k], pos))

\* C12 as claimed: series_sum returns the arithmetic sum of its arguments, and
\* every reordering and regrouping of them returns the same.
C12_AsClaimed ==
    SeriesCalled =>
        \A pos \in Positions :
            /\ At(s_out, pos) = ExactSumAt(s_args, pos)
            /\ \A v \in Groupings(s_args, 1..Len(s_args), pos) : v = At(s_out, pos)

\* C12, amended: series_sum returns the sum taken from the left in doubles.
\* It is the arithmetic sum, the same in either order, for one or two
\* arguments whose sum is a double; with an infinity among the arguments every
\* order and grouping returns the same infinity or nan; for k finite arguments
\* every order and grouping returns a double within
\* (k-1)u/(1-(k-1)u) * (|z1| + ... + |zk|) of the arithmetic sum, u = 2^-Precision.
C12_SeriesSum ==
    SeriesCalled =>
        \A pos \in Positions :
            LET k == Len(s_args)
                all == Groupings(s_args, 1..k, pos)
                sum == ExactSumAt(s_args, pos)
            IN  /\ At(s_out, pos) \in all
                /\ k <= 2 => all = {fl(sum)}
                /\ ~AllFiniteAt(s_args, pos) => all = {sum}
                /\ AllFiniteAt(s_args, pos) =>
                      \A v \in all :
                          /\ isfinite(v)
                          /\ Abs(FSub(v, sum).n) * (Pow2(Precision) - (k - 1))
                                <= (k - 1) * AbsSumAt(s_args, pos) * FSub(v, sum).d

\* series_sum(8, 1, 1) returned 8, and series_sum(1, 1, 8) returns 10
C12_Witness ==
    /\ SeriesCalled
    /\ Len(s_args) = 3
    /\ s_args[1].py /\ s_args[1].z = Fin(8)
    /\ s_args[2].py /\ s_args[2].z = Fin(1)
    /\ s_args[3].py /\ s_args[3].z = Fin(1)
    /\ s_out.z = Fin(8)
    /\ Fin(10) \in Groupings(s_args, 1..3, 1)

----------------------------------------------------------------------------
(* Properties of process_data and of the saved file *)

Processed13 == d_pc \notin {"idle", "raised"}
HasBoth == Required \subseteq Names(d_in.cols)

ExampleIn ==
    /\ d_in.cols = <<"Current", "Reduced Voltage">>
    /\ Len(d_in.rows) = 2
    /\ d_in.rows[1]["Current"] = Fin(1) /\ d_in.rows[1]["Reduced Voltage"] = Rat(1, 10)
    /\ d_in.rows[2]["Current"] = Fin(2) /\ d_in.rows[2]["Reduced Voltage"] = Rat(1, 5)

\* C13: for a table with both 'Reduced Voltage' and 'Current', process_data
\* returns a table of as many rows whose Power is V*I/1000 and whose
\* Resistance is V/I*1000 in every row, the other columns being those of the
\* input; Current = [1, 2], Reduced Voltage = [0.1, 0.2] give
\* Power = [1e-4, 4e-4] and Resistance = [100, 100].
C13_DerivedColumns ==
    (d_pc # "idle" /\ HasBoth) =>
        /\ Processed13
        /\ Len(d_out.rows) = Len(d_in.rows)
        /\ Names(d_out.cols) = Names(d_in.cols) \cup {"Power", "Resistance"}
        /\ \A k \in 1..Len(d_in.rows) :
              LET V == d_in.rows[k]["Reduced Voltage"]
                  I == d_in.rows[k]["Current"]
              IN  /\ d_out.rows[k]["Power"] = FDiv(FMul(V, I), Fin(1000))
                  /\ d_out.rows[k]["Resistance"] = FMul(Fin(1000), FDiv(V, I))
                  /\ \A c \in Names(d_in.cols) \ {"Power", "Resistance"} :
                        d_out.rows[k][c] = d_in.rows[k][c]
        /\ ExampleIn =>
              /\ d_out.rows[1]["Power"] = Rat(1, 10000)
              /\ d_out.rows[2]["Power"] = Rat(4, 10000)
              /\ d_out.rows[1]["Resistance"] = Fin(100)
              /\ d_out.rows[2]["Resistance"] = Fin(100)

\* process_data returned for Current = [1, 2], Reduced Voltage = [0.1, 0.2]
C13_Witness == d_pc = "returned" /\ ExampleIn /\ Len(d_out.rows) = 2

\* C14: for a table lacking 'Current' and/or 'Reduced Voltage', process_data
\* raises KeyError naming exactly the required columns the table lacks, and
\* returns no table.
C14_MissingColumns ==
    (d_pc # "idle" /\ ~HasBoth) =>
        /\ d_pc = "raised"
        /\ d_missing = {c \in {"Current", "Reduced Voltage"} : c \notin Names(d_in.cols)}
        /\ d_missing # {}
        /\ d_out = <<>>
        /\ d_file = <<>>

\* process_data raised for a table with 'Time' and 'Reduced Voltage' only
C14_Witness ==
    /\ d_pc = "raised"
    /\ d_in.cols = <<"Time", "Reduced Voltage">>
    /\ Len(d_in.rows) = 2
    /\ d_missing = {"Current"}

SameCell(x, y) == x = y

----------------------------------------------------------------------------
(* Properties of the parameters handed to the fits *)

\* C18: every parameter the thermal and the antenna script hand to the fit
\* has its initial value within its bounds, min <= value <= max.
C18_InitialWithinBounds ==
    f_kind \in {"thermal", "antenna"} =>
        /\ DOMAIN f_params =
              IF f_kind = "thermal" THEN DOMAIN initial ELSE param_names
        /\ \A name \in DOMAIN f_params :
              /\ Leq(f_params[name].min, f_params[name].value)
              /\ Leq(f_params[name].value, f_params[name].max)

\* the thermal fit was handed alpha at its lower bound and A with no upper
\* bound
C18_Witness ==
    /\ f_kind = "thermal"
    /\ f_pc = "fitting"
    /\ f_params["alpha"].value = f_params["alpha"].min
    /\ f_params["A"].max = inf
    /\ f_params["T_bath"].min = Fin(-50)


----------------------------------------------------------------------------
(* Properties of the scripts *)

\* the required columns that are absent from the table when the running
\* script makes the call
AbsentAt(call) ==
    IF r_script = "thermal" /\ call = "process_data"
    THEN Required \ Names(r_env.input.header)
    ELSE IF r_script = "phase" /\ call = "process_data"
    THEN Names(PhaseRequired) \ r_env.cols
    ELSE IF r_script = "antenna" /\ call = "columns"
    THEN (Names(BolometerColumns) \ r_env.bo) \cup (Names(IveColumns) \ r_env.ive)
    ELSE IF r_script = "antenna" /\ call = "plot_txt_data"
    THEN Names(TxtColumns) \ r_env.txt
    ELSE IF r_script = "averaging" /\ call = "process_data"
    THEN (IF {"power", "I(Rrad)"} \cap rename_columns(r_env.cols) = {}
          THEN {"I(Rrad)"} ELSE {})
         \cup (IF ~r_env.skip_resample /\ "time" \notin r_env.cols THEN {"time"} ELSE {})
    ELSE IF r_script = "averaging" /\ call = "plot_dc_sweep"
    THEN SweepRequired \ r_df.cols
    ELSE IF r_script = "averaging" /\ call = "plot_temperature_time"
    THEN {"time", "V(t)"} \ r_df.cols
    ELSE {}

\* the k-th call raised KeyError and ended the run: no call follows it
Fatal(k) == k = Len(r_done) /\ r_pc = "died" /\ r_exc.type = "KeyError"

\* a record of the log at the given level lists exactly these names
Logged(level, names) ==
    \E j \in 1..Len(r_log) :
        /\ r_log[j].level = level
        /\ "names" \in DOMAIN r_log[j]
        /\ r_log[j].names = names

\* the calls of the run that met an absent required column
MetAbsent == {k \in 1..Len(r_done) : AbsentAt(r_done[k].call) # {}}

\* C15 as the specification words it: in every script a missing required
\* column raises an error that lists the missing names and ends the script
C15_AsClaimed ==
    \A k \in MetAbsent : Fatal(k) /\ r_exc.names = AbsentAt(r_done[k].call)

\* C15: a missing required column is detected explicitly, reported with the
\* list of missing names (logged and raised as KeyError) and fatal in the
\* thermal script and in phase_analysis, and raised with the list and fatal
\* in plot_dc_sweep of time_averaging; the antenna script dies with pandas'
\* KeyError for the first absent name and logs nothing; process_data of
\* time_averaging logs a warning for the absent column and returns; main of
\* time_averaging catches the KeyError of plot_temperature_time, logs a
\* warning and returns normally
C15_MissingColumn ==
    \A k \in MetAbsent :
        LET call == r_done[k].call
            absent == AbsentAt(call)
        IN  IF r_script \in {"thermal", "phase"}
            THEN Fatal(k) /\ r_exc.names = absent /\ Logged("error", absent)
            ELSE IF r_script = "averaging" /\ call = "plot_dc_sweep"
            THEN Fatal(k) /\ r_exc.names = absent
            ELSE IF r_script = "antenna"
            THEN /\ Fatal(k)
                 /\ r_exc.names \subseteq absent
                 /\ Cardinality(r_exc.names) = 1
                 /\ \A j \in 1..Len(r_log) : "names" \notin DOMAIN r_log[j]
            ELSE IF call = "process_data"
            THEN /\ \A c \in absent : Logged("warning", {c})
                 /\ r_exc.type # "KeyError" \/ r_exc.at # "process_data"
                 /\ r_pc # "process_data"
            ELSE /\ k = Len(r_done)
                 /\ r_pc = "exit"
                 /\ r_exc = NoExc
                 /\ \E c \in absent : Logged("warning", {c})

\* a time-averaging run that was asked for the temperature plot of a table
\* without 'V(t)' or 'time' and has ended normally
C15_Witness ==
    /\ r_script = "averaging"
    /\ r_pc = "exit"
    /\ \E k \in MetAbsent : r_done[k].call = "plot_temperature_time"


\* how often the run has made the call
Count(op) == Cardinality({k \in 1..Len(r_done) : r_done[k].call = op})

\* the file operations of each script: loaders and savers, and the steps
\* that save a plot
LoadersSavers ==
    IF r_script = "thermal" THEN {"load_data", "save_processed_data"}
    ELSE IF r_script = "antenna" THEN {"load_data", "load_txt_data"}
    ELSE IF r_script = "phase" THEN {"load_data", "save_data"}
    ELSE IF r_script = "averaging" THEN {"save_data"}
    ELSE {}

PlotSavers ==
    IF r_script = "thermal" /\ r_env.output_plot # ""
    THEN ThermalIO \ {"load_data", "save_processed_data"}
    ELSE IF r_script = "antenna" THEN AntennaIO \ {"load_data", "load_txt_data"}
    ELSE IF r_script = "phase" THEN {"savefig"}
    ELSE IF r_script = "averaging" THEN {"plot_dc_sweep", "plot_temperature_time"}
    ELSE {}

\* the file operations that the run has attempted and that failed; a plot
\* function that misses a column raises before it comes to save the plot
IOFailures ==
    IF r_script = "none" THEN {}
    ELSE {op \in (LoadersSavers \cup PlotSavers) \cap r_env.fails :
             Count(op) > 0 /\ AbsentAt(op) = {}}

\* a record at error level is in the log
ErrorLogged == \E j \in 1..Len(r_log) : r_log[j].level \in {"error", "exception"}

\* the failure of op went up to main's caller: it ended the run
Reraised(op) == r_pc = "died" /\ r_exc.type = "OSError" /\ r_exc.at = op

\* C16 as the specification words it: every failed read, write or plot save
\* is logged, raised again and not retried
C16_AsClaimed ==
    \A op \in IOFailures : ErrorLogged /\ Reraised(op) /\ Count(op) = 1

\* C16: a failure in a loader or saver of the fit scripts and of
\* phase_analysis is logged at error level, raised again and not retried;
\* a failed savefig in phase_analysis.plot_data is logged and not raised
\* again, the run ends normally without the plot file; the plot functions of
\* the fit scripts and save_data and plot_dc_sweep of time_averaging let the
\* failure end the run without logging it; main of time_averaging logs a
\* failure of the temperature plot and ends normally; load_data of
\* time_averaging reads the file a second time after a NoDataError, and logs
\* and raises again the failure of its last read
C16_IOFailure ==
    /\ \A op \in IOFailures :
        /\ Count(op) = 1
        /\ IF r_script = "phase" /\ op = "savefig"
           THEN /\ ErrorLogged
                /\ r_pc = "exit"
                /\ r_exc = NoExc
                /\ r_env.plot_file \notin r_files
           ELSE IF r_script = "averaging" /\ op = "plot_temperature_time"
           THEN ErrorLogged /\ r_pc = "exit" /\ r_exc = NoExc
           ELSE IF r_script = "averaging" \/ op \in PlotSavers
           THEN Reraised(op) /\ ~ErrorLogged
           ELSE Reraised(op) /\ ErrorLogged
    /\ (r_script = "averaging" /\ Count("load_data") > 0) =>
        /\ Count("load_data") = 1
        /\ Count("read_csv") = Len(r_env.reads)
        /\ IF r_env.reads[Len(r_env.reads)] = "ok"
           THEN r_exc.at # "load_data"
           ELSE ErrorLogged /\ Reraised("load_data")

\* a phase_analysis run in which saving the plot failed and which has ended
C16_Witness ==
    /\ r_script = "phase"
    /\ "savefig" \in IOFailures
    /\ r_pc = "exit"


\* perform_fitting has returned a result to main of a fit script
FitReturned ==
    /\ r_script \in {"thermal", "antenna"}
    /\ Count("perform_fitting") = 1
    /\ r_exc.at # "perform_fitting"

\* the plot calls of the fit script that runs
PlotCalls ==
    IF r_script = "thermal"
    THEN {"plot_thermal_resistance", "plot_voltage_current", "plot_current_temperature",
          "plot_current_thermal_resistance"}
    ELSE {"plot_fitting_results", "plot_fitting_results_macro", "plot_txt_data",
          "plot_complex_figure"}

\* the model functions main evaluates after the fit, and how often
Evaluated(f) ==
    IF r_script = "thermal"
    THEN (IF f = "T2R_th" THEN 2 ELSE IF f \in {"I_int2V_int", "P2T"} THEN 1 ELSE 0)
    ELSE (IF f = "output_power" THEN 2 ELSE 0)

ThermalOrder ==
    <<"load_data", "process_data", "save_processed_data", "perform_fitting",
      "plot_thermal_resistance", "plot_voltage_current", "plot_current_temperature",
      "plot_current_thermal_resistance">>

\* the steps the run has started, without the evaluations of the model
Started == SelectSeq(r_done, LAMBDA c : c.at = "-")

\* the step raised: it was started, and the environment makes it fail
Raised(step) ==
    /\ Count(step) = 1
    /\ \/ step = "load_data" /\ "load_data" \in r_env.fails
       \/ step = "process_data" /\ AbsentAt("process_data") # {}
       \/ step = "perform_fitting" /\ r_env.fit = "raises"

\* C20: the thermal script starts its steps in the order load, derive, save,
\* fit, plot, each one after the one before it has returned, so that a step
\* that raises is the last one started; when loading or deriving raises no
\* file at all has been written, and when the fit raises the processed-data
\* file is the only file written
C20_LinearPipeline ==
    r_script = "thermal" =>
        /\ Len(Started) <= Len(ThermalOrder)
        /\ \A k \in 1..Len(Started) : Started[k].call = ThermalOrder[k]
        /\ \A step \in {"load_data", "process_data", "perform_fitting"} :
               Raised(step) =>
                   /\ r_pc = "died"
                   /\ r_exc.at = step
                   /\ Started[Len(Started)].call = step
        /\ (Raised("load_data") \/ Raised("process_data")) => r_files = {}
        /\ Raised("perform_fitting") => r_files = {r_env.output_data}
        /\ r_files # {} => r_env.output_data \in r_files

\* a thermal run whose fit raised after the processed table was saved
C20_Witness ==
    /\ r_script = "thermal"
    /\ Raised("perform_fitting")
    /\ r_files = {"processed_data.dat"}

----------------------------------------------------------------------------
(* Properties of modify_stacks *)

\* the call has returned, or raised
NetReturned == n_pc = "returned"

NetRaised == n_pc = "raised"

\* the references X1..Xk
UpTo(k) == {XRef(n) : n \in 1..k}

\* the components with the symbol in the input file are X1..Xk, k >= 1
Contiguous ==
    LET refs == Matching(n_input, n_args.symbol_name)
    IN  refs # {} /\ refs = UpTo(Cardinality(refs))

\* C21: when the components with the symbol are X1..Xk (k >= 1) in the
\* input, then after modify_stacks has returned the components with the
\* symbol are exactly X1..X{num_stacks}, in the editor and in the file
\* written, whether components had to be removed, added or neither
C21_ExactlyNumStacks ==
    (NetReturned /\ Contiguous) =>
        /\ Matching(n_net, n_args.symbol_name) = UpTo(n_args.num_stacks)
        /\ Matching(n_saved[n_args.output_file], n_args.symbol_name) = UpTo(n_args.num_stacks)

\* a call that returned after clones were added to X1, X2
C21_Witness ==
    /\ NetReturned
    /\ Contiguous
    /\ Matching(n_input, n_args.symbol_name) = UpTo(2)
    /\ n_args.num_stacks = 4
    /\ Matching(n_net, n_args.symbol_name) = UpTo(4)

\* the positions of the operations with one of the names
OpsAt(names) == {k \in 1..Len(n_ops) : n_ops[k].op \in names}

RunnerOps == {"SimRunner", "run", "run_now", "wait_completion"}

\* C22: the simulator is started only when simulate is true, only after
\* save_netlist has written the output file, and on that file; a call with
\* simulate that returns does so after the simulation has ended; without
\* simulate no runner operation is made at all
C22_SimulateAfterSave ==
    n_pc # "idle" =>
        /\ ~n_args.simulate => OpsAt(RunnerOps) = {} /\ n_sim = "none"
        /\ \A k \in OpsAt({"run", "run_now"}) :
               /\ n_args.simulate
               /\ n_ops[k].file = n_args.output_file
               /\ n_args.output_file \in DOMAIN n_saved
               /\ \E j \in OpsAt({"save_netlist"}) :
                      j < k /\ n_ops[j].file = n_args.output_file
        /\ n_sim # "none" => OpsAt({"run", "run_now"}) # {}
        /\ (NetReturned /\ n_args.simulate) => n_sim = "done"

\* a call with simulate and without run_switches that returned after the
\* simulation it started had ended
C22_Witness ==
    /\ NetReturned
    /\ n_args.simulate
    /\ n_args.run_switches = <<>>
    /\ OpsAt({"run"}) # {}
    /\ n_sim = "done"

\* the m references with the highest numbers
Highest(refs, m) == {r \in refs : Cardinality({q \in refs : q.n > r.n}) < m}

\* the removal is over
PastRemove == n_pc \in {"add", "parameters", "save", "simulate", "wait", "returned"}

\* C23: when num_stacks is below the number of components with the symbol,
\* the components removed are exactly the ones with the highest numbers, by
\* the number and not by the string; the num_stacks lowest stay, and so does
\* every component with another symbol
C23_RemovesHighest ==
    (PastRemove /\ n_args.num_stacks < Len(n_sorted)) =>
        LET refs == Matching(n_input, n_args.symbol_name)
            surplus == Highest(refs, Len(n_sorted) - n_args.num_stacks)
        IN  /\ DOMAIN n_input \ DOMAIN n_net = surplus
            /\ Matching(n_net, n_args.symbol_name) = refs \ surplus
            /\ Cardinality(refs \ surplus) = n_args.num_stacks
            /\ \A r \in DOMAIN n_input \ refs : r \in DOMAIN n_net /\ n_net[r] = n_input[r]
            /\ OpsAt({"remove_component"}) # {}
            /\ \A k \in OpsAt({"remove_component"}) : n_ops[k].ref \in surplus

\* X2 and X10 went and X1 stayed, next to a component with another symbol
C23_Witness ==
    /\ NetReturned
    /\ Matching(n_input, n_args.symbol_name) = {XRef(1), XRef(2), XRef(10)}
    /\ n_args.num_stacks = 1
    /\ DOMAIN n_net = {XRef(1), XRef(4)}

\* C24, as the claim states it: no add_component is made with a reference
\* that the schematic holds already, whatever the numbers of the components
\* with the symbol are
C24_AsClaimed == \A k \in OpsAt({"add_component"}) : n_ops[k].ref \notin DOMAIN n_input

\* C24: what the code does: the clones are numbered from the count of the
\* components with the symbol, so an add meets a reference that is present
\* as soon as a number up to num_stacks is taken by a component outside
\* X1..X{count}: X3 next to X1 with num_stacks = 3 is added a second time,
\* and ends as fewer components than asked for or as an error of the library
C24_AddsFromCount ==
    \A k \in OpsAt({"add_component"}) :
        /\ n_ops[k].ref.n > Len(n_sorted)
        /\ n_ops[k].ref.n <= n_args.num_stacks
        /\ n_ops[k].ref \in DOMAIN n_input =>
               n_ops[k].ref \notin UpTo(Len(n_sorted))

\* X1 and X3 with num_stacks = 3: X3 was added again, and the call returned
\* with two components where three were asked for
C24_Witness ==
    /\ NetReturned
    /\ Matching(n_input, n_args.symbol_name) = {XRef(1), XRef(3)}
    /\ n_args.num_stacks = 3
    /\ \E k \in OpsAt({"add_component"}) : n_ops[k].ref = XRef(3)
    /\ Cardinality(Matching(n_net, n_args.symbol_name)) = 2

\* the positions in a sequence of operations of the ones with the names
Among(ops, names) == {k \in 1..Len(ops) : ops[k].op \in names}

Effects == {"add_component", "set_component_parameters", "save_netlist",
            "SimRunner", "run", "run_now", "wait_completion"}

\* C25: when components are asked for and the schematic has none with the
\* symbol to clone, modify_stacks and modify_3stacks raise RuntimeError
\* before any add, any parameter update, the save and the simulator: no
\* output file is written
C25_NoTemplate ==
    /\ (n_pc # "idle" /\ Matching(n_input, n_args.symbol_name) = {} /\ n_args.num_stacks > 0) =>
           /\ Among(n_ops, Effects) = {}
           /\ DOMAIN n_saved = {}
           /\ n_sim = "none"
           /\ n_pc \in {"enumerate", "remove", "add", "raised"}
           /\ n_pc = "raised" => n_exc = "RuntimeError" /\ n_net = n_input
    /\ (l_out.exc # "-" /\ Matching(n_input, "1stack") = {} /\ n_args.num_stacks > 0) =>
           /\ l_out.exc = "RuntimeError"
           /\ Among(l_out.ops, Effects) = {}
           /\ DOMAIN l_out.saved = {}
           /\ l_out.sim = "none"

\* both functions raised RuntimeError on a schematic that holds a component
\* of another symbol only, with parameters given and the simulation asked for
C25_Witness ==
    /\ NetRaised
    /\ n_exc = "RuntimeError"
    /\ l_out.exc = "RuntimeError"
    /\ DOMAIN n_input = {XRef(4)}
    /\ n_args.num_stacks = 2
    /\ Len(n_args.params_list) = 2
    /\ n_args.simulate

\* the parameter updates made so far, in order
SetOps == SelectSeq(n_ops, LAMBDA o : o.op = "set_component_parameters")

Min(a, b) == IF a <= b THEN a ELSE b

\* the parameter loop is over
PastParameters == n_pc \in {"save", "simulate", "wait", "returned"} \/ n_sim = "failed"

\* the parameters a component has when the parameter loop starts: its own,
\* or the ones of the template when it is a clone
Before(r) ==
    IF Among(n_ops, {"add_component"}) # {} /\ r.p = "X" /\ r.n > Len(n_sorted)
          /\ r.n <= n_args.num_stacks
    THEN n_input[n_sorted[1]].parameters
    ELSE n_input[r].parameters

\* a dictionary laid over the parameters a component has
Updated(old, params) == [k \in Keys |-> IF params[k] # unset THEN params[k] ELSE old[k]]

\* C26: the parameter updates are made for X1, X2, ... in increasing order,
\* the i-th with the i-th dictionary of params_list, and when the loop is
\* over they are exactly the ones for i = 1..min(len(params_list),
\* num_stacks): dictionaries beyond num_stacks are not used, and a component
\* beyond len(params_list) keeps its parameters, a clone the ones of the
\* template
C26_ParametersInOrder ==
    n_pc # "idle" =>
        LET last == Min(Len(n_args.params_list), n_args.num_stacks)
        IN  /\ Len(SetOps) <= last
            /\ \A k \in 1..Len(SetOps) :
                   SetOps[k].ref = XRef(k) /\ SetOps[k].params = n_args.params_list[k]
            /\ PastParameters =>
                   /\ Len(SetOps) = last
                   /\ \A r \in DOMAIN n_net :
                          n_net[r].parameters =
                              IF r \in UpTo(last)
                              THEN Updated(Before(r), n_args.params_list[r.n])
                              ELSE Before(r)

\* two dictionaries for one component asked for: the first was laid over the
\* parameters of X1 and the second was not used
C26_Witness ==
    /\ NetReturned
    /\ Len(n_args.params_list) = 2
    /\ n_args.num_stacks = 1
    /\ Len(SetOps) = 1
    /\ n_net[XRef(1)].parameters = Updated(n_input[XRef(1)].parameters, n_args.params_list[1])
    /\ n_net[XRef(1)].parameters # n_input[XRef(1)].parameters

\* C27: called with the symbol "1stack" and without run_switches,
\* modify_stacks makes the operations of the editor and of the runner that
\* modify_3stacks makes on the same input, in the same order and with the
\* same arguments, and ends the same way: raising the same kind of
\* exception or returning with the same schematic, file and simulation
C27_SameAsLegacy ==
    (l_out.exc # "-" /\ n_args.symbol_name = "1stack" /\ n_args.run_switches = <<>>) =>
        /\ l_out.ops = n_ops
        /\ l_out.exc = n_exc
        /\ l_out.net = n_net
        /\ DOMAIN l_out.saved = DOMAIN n_saved
        /\ \A f \in DOMAIN n_saved : l_out.saved[f] = n_saved[f]
        /\ l_out.sim = n_sim
        /\ NetReturned => n_ret = ReturnNone

\* both functions removed a component, updated one, saved and simulated
C27_Witness ==
    /\ NetReturned
    /\ l_out.exc = "none"
    /\ n_args.symbol_name = "1stack"
    /\ n_args.simulate
    /\ n_args.run_switches = <<>>
    /\ Among(l_out.ops, {"remove_component"}) # {}
    /\ Among(l_out.ops, {"set_component_parameters"}) # {}
    /\ Among(l_out.ops, {"wait_completion"}) # {}


----------------------------------------------------------------------------
(* Properties of the saved table of time_averaging, of the plot files of   *)
(* the thermal script, and of the table handed to process_data             *)

\* main of time_averaging has left its save statement behind
SaveOver ==
    /\ r_script = "averaging"
    /\ \/ r_pc \in {"plot_dc_sweep", "plot_temperature_time", "exit"}
       \/ r_pc = "died" /\ r_exc.at \notin {"load_data", "process_data"}

\* the position of the first call with the name in r_done, 0 when there is none
First(op) ==
    IF Count(op) = 0 THEN 0
    ELSE CHOOSE k \in 1..Len(r_done) :
             r_done[k].call = op /\ \A j \in 1..(k - 1) : r_done[j].call # op

\* C28, as the claim states it: without --skip_resample the table is saved
\* exactly once, before any plot, to --output_file or else to a default path
\* derived from the input path; with --skip_resample it is never saved
C28_AsClaimed ==
    SaveOver =>
        IF r_env.skip_resample THEN Count("save_data") = 0
        ELSE /\ Count("save_data") = 1
             /\ \A plot \in {"plot_dc_sweep", "plot_temperature_time"} :
                    Count(plot) > 0 => First("save_data") < First(plot)

\* C28: what the code does: the table is saved once and before the plots
\* when --output_file is given; without --output_file and without
\* --skip_resample the default path is never built, with_suffix raises
\* ValueError and main ends there: nothing is saved and nothing plotted
C28_SavedOnlyToOutputFile ==
    SaveOver =>
        /\ Count("save_data") = (IF ~r_env.skip_resample /\ r_env.output_file # "" THEN 1 ELSE 0)
        /\ (~r_env.skip_resample /\ r_env.output_file = "") =>
               /\ r_pc = "died"
               /\ r_exc.type = "ValueError"
               /\ r_exc.at = "with_suffix"
               /\ r_files = {}
               /\ Count("plot_dc_sweep") = 0 /\ Count("plot_temperature_time") = 0
        /\ \A plot \in {"plot_dc_sweep", "plot_temperature_time"} :
               (Count(plot) > 0 /\ Count("save_data") > 0) => First("save_data") < First(plot)

\* a run without --output_file and without --skip_resample that ended in the
\* ValueError of with_suffix
C28_Witness ==
    /\ SaveOver
    /\ ~r_env.skip_resample
    /\ r_env.output_file = ""
    /\ r_exc.type = "ValueError"

\* the plot steps of the thermal script that have saved their figure
ThermalPlots ==
    {"plot_thermal_resistance", "plot_voltage_current", "plot_current_temperature",
     "plot_current_thermal_resistance"}

SavedPlots ==
    IF r_script = "thermal" /\ r_env.output_plot # ""
    THEN {step \in ThermalPlots : Count(step) = 1 /\ r_pc # step /\ r_exc.at # step}
    ELSE {}

\* the plots that can still be found in a file
KeptPlots == {step \in SavedPlots : \E f \in DOMAIN r_holds : r_holds[f] = step}

\* C29, as the claim states it: every plot the thermal script has saved is
\* in a file of its own, none was overwritten by a later plot
C29_AsClaimed == r_script = "thermal" => KeptPlots = SavedPlots

\* C29: what the code does: plot_voltage_current saves to the path
\* plot_thermal_resistance has just saved to, so the first plot is lost for
\* every path; with a path that holds ".pdf" the last two plots get files of
\* their own, and with any other path all four plots go to the one file,
\* which ends holding the last one
C29_PrimaryOverwritten ==
    (r_script = "thermal" /\ r_pc = "exit" /\ r_env.output_plot # "") =>
        /\ "plot_thermal_resistance" \notin KeptPlots
        /\ r_holds[r_env.output_plot] =
               (IF r_env.output_plot = "fit_plots.pdf" THEN "plot_voltage_current"
                ELSE "plot_current_thermal_resistance")
        /\ KeptPlots =
               (IF r_env.output_plot = "fit_plots.pdf"
                THEN ThermalPlots \ {"plot_thermal_resistance"}
                ELSE {"plot_current_thermal_resistance"})

\* a finished run with the default path: four plots saved, three files
C29_Witness ==
    /\ r_script = "thermal"
    /\ r_pc = "exit"
    /\ r_env.output_plot = "fit_plots.pdf"
    /\ SavedPlots = ThermalPlots
    /\ Cardinality({f \in DOMAIN r_holds : r_holds[f] \in ThermalPlots}) = 3

\* C30: process_data, of the thermal fit and of phase_analysis, leaves the
\* table it is given as it was, whether it returns or raises: the object of
\* the caller holds what it held at the call, and the table returned is
\* another object, the only one with the derived columns
C30_InputUntouched ==
    d_pc # "idle" =>
        /\ d_heap[1] = d_in
        /\ d_pc \in {"returned", "phase_returned"} =>
               /\ Len(d_heap) >= 2
               /\ d_out = d_heap[Len(d_heap)]

\* a thermal table without the derived columns was processed: the table
\* returned has them and the one of the caller does not
C30_Witness ==
    /\ d_pc = "returned"
    /\ "Power" \notin Names(d_in.cols)
    /\ "Power" \in Names(d_out.cols)
    /\ "Resistance" \in Names(d_heap[2].cols)
    /\ "Power" \notin Names(d_heap[1].cols)

============================================================================
